---- MODULE Spec2Model ----
(***************************************************************************)
(* Board-game engine (territory game, five-in-a-row, flip-capture) with    *)
(* snapshot undo and an event recorder, modelled from src/core.            *)
(*                                                                         *)
(* Values: a PlayerColor is "PlayerColor.BLACK"/"PlayerColor.WHITE", a     *)
(* Piece is "Piece.EMPTY"/"Piece.BLACK"/"Piece.WHITE", their .value is an  *)
(* integer; a Position is <<row, col>>; an optional position is <<>> when  *)
(* absent; an optional integer is <<>> or <<v>>; an optional PlayerColor   *)
(* is "None" when absent.                                                  *)
(***************************************************************************)
EXTENDS Integers, Sequences, FiniteSets, TLC

(***************************************************************************)
(* Bounds of the model                                                     *)
(***************************************************************************)
\* Steps and forced skips recorded in one game (length of the event log).
MaxSteps == 3
\* Number of cells of CellOrder that hold the stones of a loaded Go position.
PosCells == 6
\* The same, for the positions that are scored.
ScoreCells == 5
\* Length of the lines that hold the stones of a loaded five-in-a-row position.
LineLen == 5
\* Steps made in a game before its playback, and steps that can be undone.
PlaySteps == 2
\* Steps made on a loaded position.
TakeSteps == 1

(***************************************************************************)
(* Program constants                                                       *)
(***************************************************************************)
\* Board size: the smallest size Board.__init__ accepts.
Size == 8
MaxSize == 19
\* Komi in tenths of a point (7.5).
DefaultKomi == 75
\* Recorder(keyframe_every=10)
KeyframeEvery == 10

(***************************************************************************)
(* models.py                                                               *)
(***************************************************************************)
PC_BLACK == "PlayerColor.BLACK"
PC_WHITE == "PlayerColor.WHITE"
PlayerColor == {PC_BLACK, PC_WHITE}
None == "None"

EMPTY == "Piece.EMPTY"
P_BLACK == "Piece.BLACK"
P_WHITE == "Piece.WHITE"
Piece == {EMPTY, P_BLACK, P_WHITE}

PlayerValue(pc) == IF pc = PC_BLACK THEN 1 ELSE 2
PlayerOfValue(v) == IF v = 1 THEN PC_BLACK ELSE PC_WHITE
PieceValue(pc) == CASE pc = EMPTY -> 0 [] pc = P_BLACK -> 1 [] pc = P_WHITE -> 2
PieceOfValue(v) == CASE v = 0 -> EMPTY [] v = 1 -> P_BLACK [] v = 2 -> P_WHITE

from_player(p) == IF p = PC_BLACK THEN P_BLACK ELSE P_WHITE
to_player(pc) ==
    IF pc = P_BLACK THEN PC_BLACK ELSE IF pc = P_WHITE THEN PC_WHITE ELSE None

\* Move(player, pos=None, pass_move=False, resign=False)
Move(player, pos, pass_move, resign) ==
    [player |-> player, pos |-> pos, pass_move |-> pass_move, resign |-> resign]
NoPos == <<>>

\* The other color, as every engine computes it inline.
Opponent(pc) == IF pc = PC_BLACK THEN PC_WHITE ELSE PC_BLACK

(***************************************************************************)
(* board.py                                                                *)
(***************************************************************************)
Cells(size) == (0 .. size - 1) \X (0 .. size - 1)

\* Board(size): ValueError outside 8..19 (callers of the model pass Size).
ValidSize(size) == ~(size < Size \/ size > MaxSize)
NewBoard(size) == [size |-> size, grid |-> [p \in Cells(size) |-> EMPTY]]

in_bounds(b, p) == 0 <= p[1] /\ p[1] < b.size /\ 0 <= p[2] /\ p[2] < b.size
get(b, p) == b.grid[p]
set(b, p, piece) == [b EXCEPT !.grid[p] = piece]
is_empty(b, p) == get(b, p) = EMPTY

\* neighbors yields up, down, left, right, in that order, bounds-filtered.
Dirs4 == << <<-1, 0>>, <<1, 0>>, <<0, -1>>, <<0, 1>> >>
neighbors(b, p) ==
    LET cand == [i \in 1 .. 4 |-> <<p[1] + Dirs4[i][1], p[2] + Dirs4[i][2]>>]
    IN  SelectSeq(cand, LAMBDA q : 0 <= q[1] /\ q[1] < b.size /\ 0 <= q[2] /\ q[2] < b.size)

to_array(b) ==
    [r \in 1 .. b.size |-> [c \in 1 .. b.size |-> PieceValue(b.grid[<<r - 1, c - 1>>])]]
from_array(arr) ==
    [size |-> Len(arr),
     grid |-> [p \in Cells(Len(arr)) |-> PieceOfValue(arr[p[1] + 1][p[2] + 1])]]

SeqToSet(s) == {s[i] : i \in 1 .. Len(s)}

(***************************************************************************)
(* rules.py                                                                *)
(***************************************************************************)
\* Number of cells holding `piece` met walking from (r, c) by (dr, dc), the
\* while loops of is_five_in_a_row.
RECURSIVE RunLength(_, _, _, _, _, _)
RunLength(b, r, c, dr, dc, piece) ==
    IF 0 <= r /\ r < b.size /\ 0 <= c /\ c < b.size /\ b.grid[<<r, c>>] = piece
    THEN 1 + RunLength(b, r + dr, c + dc, dr, dc, piece)
    ELSE 0

Dirs5 == << <<1, 0>>, <<0, 1>>, <<1, 1>>, <<1, -1>> >>

\* Variant of the line count that walks away from the stone in one direction only.
LineCount_Forward(b, p, piece, d) ==
    1 + RunLength(b, p[1] + d[1], p[2] + d[2], d[1], d[2], piece)

LineCount(b, p, piece, d) ==
    1 + RunLength(b, p[1] - d[1], p[2] - d[2], -d[1], -d[2], piece)
      + RunLength(b, p[1] + d[1], p[2] + d[2], d[1], d[2], piece)

is_five_in_a_row(b, p, piece) ==
    \E i \in 1 .. 4 : LineCount(b, p, piece, Dirs5[i]) >= 5

\* The while loop of flood_group_and_liberties: the stack is popped from its
\* end; `color` is the piece at the start position.
RECURSIVE FloodLoop(_, _, _, _, _, _)
FloodLoop(b, color, stack, visited, stones, liberties) ==
    IF stack = <<>> THEN [stones |-> stones, libs |-> liberties]
    ELSE LET p == stack[Len(stack)]
             rest == SubSeq(stack, 1, Len(stack) - 1)
         IN  IF p \in visited
             THEN FloodLoop(b, color, rest, visited, stones, liberties)
             ELSE LET nbs == neighbors(b, p)
                      vis == visited \cup {p}
                      libs == {nbs[i] : i \in {j \in 1 .. Len(nbs) : get(b, nbs[j]) = EMPTY}}
                      push == SelectSeq(nbs, LAMBDA q : get(b, q) = color /\ q \notin vis)
                  IN  FloodLoop(b, color, rest \o push, vis, stones \cup {p},
                                liberties \cup libs)

flood_group_and_liberties(b, start) ==
    IF get(b, start) = EMPTY THEN [stones |-> {}, libs |-> {}]
    ELSE FloodLoop(b, get(b, start), <<start>>, {}, {}, {})

\* board.set(s, piece) for every s in stones
RECURSIVE SetAll(_, _, _)
SetAll(b, stones, piece) ==
    IF stones = {} THEN b
    ELSE LET s == CHOOSE x \in stones : TRUE
         IN  SetAll(set(b, s, piece), stones \ {s}, piece)

\* Variant that leaves the stones on the board.
ClearAll_Keep(b, stones) == b

ClearAll(b, stones) == SetAll(b, stones, EMPTY)

\* The for loop of capture_if_no_liberty over positions[i ..]; CaptureGroup is
\* the loop body once the group g of positions[i] has been flooded.
RECURSIVE CaptureLoop(_, _, _, _, _)
RECURSIVE CaptureGroup(_, _, _, _, _, _)
CaptureLoop(b, positions, i, seen, captured) ==
    IF i > Len(positions) THEN [board |-> b, captured |-> captured]
    ELSE IF positions[i] \in seen \/ get(b, positions[i]) = EMPTY
         THEN CaptureLoop(b, positions, i + 1, seen, captured)
         ELSE CaptureGroup(b, positions, i, seen, captured,
                           flood_group_and_liberties(b, positions[i]))

CaptureGroup(b, positions, i, seen, captured, g) ==
    IF Cardinality(g.libs) = 0
    THEN CaptureLoop(ClearAll(b, g.stones), positions, i + 1, seen \cup g.stones,
                     captured + Cardinality(g.stones))
    ELSE CaptureLoop(b, positions, i + 1, seen \cup g.stones, captured)

\* Variant that removes nothing.
capture_if_no_liberty_Never(b, positions) == [board |-> b, captured |-> 0]

capture_if_no_liberty(b, positions) == CaptureLoop(b, positions, 1, {}, 0)

(***************************************************************************)
(* replay.py: Recorder                                                     *)
(***************************************************************************)
\* Recorder(keyframe_every) followed by start(): empty lists, enabled.
\* The wall-clock fields (_start_ts, ts) are left out.
NewRecorder(keyframe_every) ==
    [enabled |-> TRUE,
     events |-> <<>>,
     snapshots |-> <<>>,
     k |-> IF keyframe_every > 1 THEN keyframe_every ELSE 1]

\* ReplayEvent(type, player, row, col, snap_index); row and col are <<>> when None.
ReplayEvent(type, player, row, col, snap_index) ==
    [type |-> type, player |-> player, row |-> row, col |-> col,
     snap_index |-> snap_index]

PlayerName(pc) == IF pc = PC_BLACK THEN "BLACK" ELSE "WHITE"

\* _maybe_keyframe(game), given game.snapshot(): the recorder after it, and the
\* index it returns.
maybe_keyframe(rec, snap) ==
    IF rec.snapshots = <<>>
    THEN [rec |-> [rec EXCEPT !.snapshots = Append(@, snap)], idx |-> 0]
    ELSE LET r == IF Len(rec.events) % rec.k = 0
                  THEN [rec EXCEPT !.snapshots = Append(@, snap)]
                  ELSE rec
         IN  [rec |-> r, idx |-> Len(r.snapshots) - 1]

\* The body shared by on_move / on_pass / on_resign / on_skip.
RecordEvent(rec, snap, type, player, row, col) ==
    IF ~rec.enabled THEN rec
    ELSE LET kf == maybe_keyframe(rec, snap)
         IN  [kf.rec EXCEPT !.events =
                 Append(@, ReplayEvent(type, PlayerName(player), row, col, kf.idx))]

on_move(rec, snap, move) ==
    RecordEvent(rec, snap, "move", move.player,
                IF move.pos # NoPos THEN <<move.pos[1]>> ELSE <<>>,
                IF move.pos # NoPos THEN <<move.pos[2]>> ELSE <<>>)
on_pass(rec, snap, player) == RecordEvent(rec, snap, "pass", player, <<>>, <<>>)
on_resign(rec, snap, player) == RecordEvent(rec, snap, "resign", player, <<>>, <<>>)
on_skip(rec, snap, player) == RecordEvent(rec, snap, "skip", player, <<>>, <<>>)

(***************************************************************************)
(* game.py: Game (fields shared by the three engines)                      *)
(***************************************************************************)
GO == "go"
GOMOKU == "gomoku"
REVERSI == "reversi"
GameTypes == {GO, GOMOKU, REVERSI}

\* Game.__init__(size)
BaseGame(type, size) ==
    [type |-> type,
     board |-> NewBoard(size),
     current |-> PC_BLACK,
     history |-> <<>>,
     ended |-> FALSE,
     winner |-> None,
     last_pos |-> NoPos,
     recorder |-> NewRecorder(KeyframeEvery)]

\* Game.snapshot()
BaseSnapshot(g) ==
    [board |-> to_array(g.board),
     current |-> PlayerValue(g.current),
     ended |-> g.ended,
     winner |-> IF g.winner # None THEN <<PlayerValue(g.winner)>> ELSE <<>>,
     last |-> IF g.last_pos # NoPos THEN <<g.last_pos[1], g.last_pos[2]>> ELSE <<>>]

\* Variant of restore that leaves last_pos as it is.
BaseRestore_NoLastPos(g, snap) ==
    [g EXCEPT !.board = from_array(snap.board),
              !.current = PlayerOfValue(snap.current),
              !.ended = snap.ended,
              !.winner = IF snap.winner # <<>> THEN PlayerOfValue(snap.winner[1]) ELSE None]

\* Game.restore(snap)
BaseRestore(g, snap) ==
    [g EXCEPT !.board = from_array(snap.board),
              !.current = PlayerOfValue(snap.current),
              !.ended = snap.ended,
              !.winner = IF snap.winner # <<>> THEN PlayerOfValue(snap.winner[1]) ELSE None,
              !.last_pos = IF snap.last # <<>> THEN <<snap.last[1], snap.last[2]>> ELSE NoPos]

\* dict.get(key, default)
DictGet(d, key, default) == IF key \in DOMAIN d THEN d[key] ELSE default

(***************************************************************************)
(* go.py: GoGame                                                           *)
(***************************************************************************)
\* GoGame.__init__(size, komi), given what Game.__init__ built
GoInit(base, komi) ==
    [type |-> base.type, board |-> base.board, current |-> base.current,
     history |-> base.history, ended |-> base.ended, winner |-> base.winner,
     last_pos |-> base.last_pos, recorder |-> base.recorder,
     captured_black |-> 0, captured_white |-> 0, consecutive_pass |-> 0,
     komi |-> komi]

NewGoGame(size, komi) == GoInit(BaseGame(GO, size), komi)

\* snap.update({...}) of GoGame.snapshot(), given super().snapshot()
GoSnapshotUpdate(snap, g) ==
    [board |-> snap.board, current |-> snap.current, ended |-> snap.ended,
     winner |-> snap.winner, last |-> snap.last,
     captured_black |-> g.captured_black,
     captured_white |-> g.captured_white,
     consecutive_pass |-> g.consecutive_pass,
     komi |-> g.komi]

\* GoGame.snapshot()
GoSnapshot(g) == GoSnapshotUpdate(BaseSnapshot(g), g)

\* GoGame.restore(snap)
GoRestore(g, snap) ==
    [BaseRestore(g, snap) EXCEPT
        !.captured_black = DictGet(snap, "captured_black", 0),
        !.captured_white = DictGet(snap, "captured_white", 0),
        !.consecutive_pass = DictGet(snap, "consecutive_pass", 0),
        !.komi = DictGet(snap, "komi", DefaultKomi)]

OppPiece(piece) == IF piece = P_WHITE THEN P_BLACK ELSE P_WHITE

AdjOpp(b, p, opp_piece) == SelectSeq(neighbors(b, p), LAMBDA nb : get(b, nb) = opp_piece)

RECURSIVE SumCard(_, _)
SumCard(groups, i) ==
    IF i > Len(groups) THEN 0 ELSE Cardinality(groups[i]) + SumCard(groups, i + 1)

\* is_legal's verdict on a simulated placement: suicide is forbidden unless a
\* capture occurs.
SuicideRule(libs, captured) == libs > 0 \/ captured > 0

\* Variant of the removal list that never lists a group.
DeadStones_Never(fl) == {}

\* The stones is_legal lists for removal for one flooded group.
DeadStones(fl) == IF Cardinality(fl.libs) = 0 THEN fl.stones ELSE {}

\* to_clear of is_legal, one entry per adjacent opposing stone: its group when
\* the group has no liberty (a group met twice is listed twice).
ToClear(b, adj_opp) ==
    [i \in 1 .. Len(adj_opp) |-> DeadStones(flood_group_and_liberties(b, adj_opp[i]))]

\* Variant of the end of the simulation that does not revert the board.
SimVerdict_NoRevert(b, p, opp_piece, cleared, captured) ==
    [legal |-> SuicideRule(Cardinality(flood_group_and_liberties(b, p).libs), captured),
     board |-> b]

\* Variant of the end of the simulation that takes the placed stone back and
\* leaves the removed stones off the board.
SimVerdict_StoneOnly(b, p, opp_piece, cleared, captured) ==
    [legal |-> SuicideRule(Cardinality(flood_group_and_liberties(b, p).libs), captured),
     board |-> set(b, p, EMPTY)]

\* The end of is_legal's simulation: the verdict on board b (the stone placed at
\* p and `cleared` removed), and the board with both reverted.
SimVerdict(b, p, opp_piece, cleared, captured) ==
    [legal |-> SuicideRule(Cardinality(flood_group_and_liberties(b, p).libs), captured),
     board |-> SetAll(set(b, p, EMPTY), cleared, opp_piece)]

\* is_legal's removal of the groups in to_clear from board b.
SimClear(b, p, opp_piece, to_clear) ==
    SimVerdict(ClearAll(b, UNION SeqToSet(to_clear)), p, opp_piece,
               UNION SeqToSet(to_clear), SumCard(to_clear, 1))

\* is_legal's simulation on board b, which holds the stone placed at p.
Simulate(b, p, opp_piece) ==
    SimClear(b, p, opp_piece, ToClear(b, AdjOpp(b, p, opp_piece)))

\* GoGame.is_legal(move): the verdict and the board it leaves behind (the
\* simulation writes to self.board and reverts it).
GoIsLegal(g, move) ==
    IF move.resign \/ move.pass_move THEN [legal |-> TRUE, board |-> g.board]
    ELSE IF move.pos = NoPos THEN [legal |-> FALSE, board |-> g.board]
    ELSE IF ~in_bounds(g.board, move.pos) THEN [legal |-> FALSE, board |-> g.board]
    ELSE IF ~is_empty(g.board, move.pos) THEN [legal |-> FALSE, board |-> g.board]
    ELSE Simulate(set(g.board, move.pos, from_player(move.player)), move.pos,
                  OppPiece(from_player(move.player)))

\* Variant of resignation that makes the side not to move the winner.
GoResign_ByTurn(g, move) == [g EXCEPT !.ended = TRUE, !.winner = Opponent(g.current)]

\* apply_move, resign branch
GoResign(g, move) == [g EXCEPT !.ended = TRUE, !.winner = Opponent(move.player)]

\* Variant of the pass that never ends the game.
GoPass_NoEnd(g, move) ==
    [g EXCEPT !.consecutive_pass = @ + 1, !.last_pos = NoPos,
              !.current = Opponent(g.current)]

\* apply_move, pass branch
GoPass(g, move) ==
    IF g.consecutive_pass + 1 >= 2
    THEN [g EXCEPT !.consecutive_pass = @ + 1, !.last_pos = NoPos, !.ended = TRUE]
    ELSE [g EXCEPT !.consecutive_pass = @ + 1, !.last_pos = NoPos,
                   !.current = Opponent(g.current)]

\* apply_move once the captures are made: the bookkeeping, then the sanity check
\* of the placed stone's group, which raises when it has no liberty.
PlaceCheck(g1, p, next) ==
    IF Cardinality(flood_group_and_liberties(g1.board, p).libs) = 0
    THEN [game |-> [g1 EXCEPT !.board = set(g1.board, p, EMPTY)], raised |-> TRUE]
    ELSE [game |-> [g1 EXCEPT !.current = next], raised |-> FALSE]

\* Variant: the stones removed are added to the counter of the other colour.
PlaceCaptured_OtherCounter(g, p, opp_piece, cap) ==
    PlaceCheck([g EXCEPT !.board = cap.board, !.last_pos = p, !.consecutive_pass = 0,
                         !.captured_black = IF cap.captured > 0 /\ opp_piece # P_BLACK
                                            THEN @ + cap.captured ELSE @,
                         !.captured_white = IF cap.captured > 0 /\ opp_piece = P_BLACK
                                            THEN @ + cap.captured ELSE @],
               p, Opponent(g.current))

PlaceCaptured(g, p, opp_piece, cap) ==
    PlaceCheck([g EXCEPT !.board = cap.board, !.last_pos = p, !.consecutive_pass = 0,
                         !.captured_black = IF cap.captured > 0 /\ opp_piece = P_BLACK
                                            THEN @ + cap.captured ELSE @,
                         !.captured_white = IF cap.captured > 0 /\ opp_piece # P_BLACK
                                            THEN @ + cap.captured ELSE @],
               p, Opponent(g.current))

\* apply_move with the stone on board b: the captures around it.
PlaceStone(g, b, p, opp_piece) ==
    PlaceCaptured(g, p, opp_piece, capture_if_no_liberty(b, AdjOpp(b, p, opp_piece)))

\* apply_move, placement: the game after it, and whether it raised.
GoPlace(g, move) ==
    PlaceStone(g, set(g.board, move.pos, from_player(move.player)), move.pos,
               OppPiece(from_player(move.player)))

\* GoGame.apply_move(move): the game after it, and whether it raised.
GoApplyMove(g, move) ==
    IF move.resign THEN [game |-> GoResign(g, move), raised |-> FALSE]
    ELSE IF move.pass_move THEN [game |-> GoPass(g, move), raised |-> FALSE]
    ELSE GoPlace(g, move)

\* flood_empty(sr, sc) of GoGame.score: the queue loop; `visited` is shared by
\* all the floods of one score() call.
RECURSIVE FloodEmptyLoop(_, _, _, _, _)
FloodEmptyLoop(b, queue, visited, area, owners) ==
    IF queue = <<>> THEN [area |-> area, owners |-> owners, visited |-> visited]
    ELSE LET p == Head(queue)
             nbs == neighbors(b, p)
             fresh == SelectSeq(nbs, LAMBDA q : q \notin visited /\ get(b, q) = EMPTY)
             seenOwners == {to_player(get(b, nbs[i])) :
                              i \in {j \in 1 .. Len(nbs) :
                                       nbs[j] \notin visited /\ get(b, nbs[j]) # EMPTY}}
         IN  FloodEmptyLoop(b, Tail(queue) \o fresh, visited \cup SeqToSet(fresh),
                            area \cup {p}, owners \cup seenOwners)

\* The double loop of GoGame.score over the cells in row-major order, from
\* cell number n on; ScoreRegion is its body once the region fl is flooded.
RECURSIVE ScoreLoop(_, _, _, _, _)
RECURSIVE ScoreRegion(_, _, _, _, _)
ScoreLoop(b, n, visited, territory_black, territory_white) ==
    IF n >= b.size * b.size
    THEN [black |-> territory_black, white |-> territory_white]
    ELSE IF get(b, <<n \div b.size, n % b.size>>) = EMPTY
            /\ <<n \div b.size, n % b.size>> \notin visited
         THEN ScoreRegion(b, n, territory_black, territory_white,
                          FloodEmptyLoop(b, << <<n \div b.size, n % b.size>> >>,
                                         visited \cup {<<n \div b.size, n % b.size>>},
                                         {}, {}))
         ELSE ScoreLoop(b, n + 1, visited, territory_black, territory_white)

ScoreRegion(b, n, territory_black, territory_white, fl) ==
    ScoreLoop(b, n + 1, fl.visited,
              IF fl.owners = {PC_BLACK}
              THEN territory_black + Cardinality(fl.area) ELSE territory_black,
              IF fl.owners = {PC_WHITE}
              THEN territory_white + Cardinality(fl.area) ELSE territory_white)

\* Variant of the totals with the capture counters exchanged.
ScoreTotals_Swapped(g, t) ==
    [BLACK |-> 10 * (t.black + g.captured_black),
     WHITE |-> 10 * (t.white + g.captured_white) + g.komi]

\* The totals of score(), in tenths of a point.
ScoreTotals(g, t) ==
    [BLACK |-> 10 * (t.black + g.captured_white),
     WHITE |-> 10 * (t.white + g.captured_black) + g.komi]

\* GoGame.score(): <<>> for None, else the two scores in tenths of a point.
GoScore(g) ==
    IF ~g.ended THEN <<>>
    ELSE <<ScoreTotals(g, ScoreLoop(g.board, 0, {}, 0, 0))>>

(***************************************************************************)
(* gomoku.py: GomokuGame                                                   *)
(***************************************************************************)
NewGomokuGame(size) == BaseGame(GOMOKU, size)

\* Variant of is_legal that lets a pass through.
GomokuIsLegal_PassAllowed(g, move) ==
    IF move.resign \/ move.pass_move THEN TRUE
    ELSE IF move.pos = NoPos THEN FALSE
    ELSE in_bounds(g.board, move.pos) /\ is_empty(g.board, move.pos)

GomokuIsLegal(g, move) ==
    IF move.resign THEN TRUE
    ELSE IF move.pass_move THEN FALSE
    ELSE IF move.pos = NoPos THEN FALSE
    ELSE IF ~in_bounds(g.board, move.pos) THEN FALSE
    ELSE IF ~is_empty(g.board, move.pos) THEN FALSE
    ELSE TRUE

BoardFull(b) == \A q \in DOMAIN b.grid : b.grid[q] # EMPTY

\* apply_move, resign branch
GomokuResign(g, move) == [g EXCEPT !.ended = TRUE, !.winner = Opponent(move.player)]

\* Variant of apply_move that does not look for a full board.
GomokuPlaced_NoDraw(g1, move, five) ==
    IF five THEN [g1 EXCEPT !.ended = TRUE, !.winner = move.player]
    ELSE [g1 EXCEPT !.current = Opponent(g1.current)]

\* apply_move after the stone is on the board: the end of the game by a five
\* or by a full board, else the turn passes.
GomokuPlaced(g1, move, five) ==
    IF five THEN [g1 EXCEPT !.ended = TRUE, !.winner = move.player]
    ELSE IF BoardFull(g1.board) THEN [g1 EXCEPT !.ended = TRUE, !.winner = None]
    ELSE [g1 EXCEPT !.current = Opponent(g1.current)]

\* apply_move, placement
GomokuPlace(g, move) ==
    GomokuPlaced([g EXCEPT !.board = set(g.board, move.pos, from_player(move.player)),
                           !.last_pos = move.pos],
                 move,
                 is_five_in_a_row(set(g.board, move.pos, from_player(move.player)),
                                  move.pos, from_player(move.player)))

GomokuApplyMove(g, move) ==
    IF move.resign THEN GomokuResign(g, move) ELSE GomokuPlace(g, move)

(***************************************************************************)
(* reversi.py: ReversiGame                                                 *)
(***************************************************************************)
DIR8 == << <<-1, -1>>, <<-1, 0>>, <<-1, 1>>,
           <<0, -1>>,             <<0, 1>>,
           <<1, -1>>,  <<1, 0>>,  <<1, 1>> >>

\* Variant of _init_start with the two colors exchanged.
init_start_Exchanged(g) ==
    LET s == g.board.size
        c1 == s \div 2 - 1
        c2 == s \div 2
    IN  [g EXCEPT !.board = set(set(set(set(g.board, <<c1, c1>>, P_BLACK),
                                            <<c2, c2>>, P_BLACK),
                                        <<c1, c2>>, P_WHITE),
                                    <<c2, c1>>, P_WHITE),
                  !.current = PC_BLACK,
                  !.last_pos = NoPos]

\* _init_start()
init_start(g) ==
    LET s == g.board.size
        c1 == s \div 2 - 1
        c2 == s \div 2
    IN  [g EXCEPT !.board = set(set(set(set(g.board, <<c1, c1>>, P_WHITE),
                                            <<c2, c2>>, P_WHITE),
                                        <<c1, c2>>, P_BLACK),
                                    <<c2, c1>>, P_BLACK),
                  !.current = PC_BLACK,
                  !.last_pos = NoPos]

NewReversiGame(size) == init_start(BaseGame(REVERSI, size))

piece_of(player) == IF player = PC_BLACK THEN P_BLACK ELSE P_WHITE
opponent_piece(player) == IF player = PC_BLACK THEN P_WHITE ELSE P_BLACK

\* Variant of the loop in which an empty cell closes a run.
RECURSIVE CapturesLoop_GapCloses(_, _, _, _, _, _, _)
CapturesLoop_GapCloses(b, r, c, dr, dc, player, buf) ==
    IF ~(0 <= r /\ r < b.size /\ 0 <= c /\ c < b.size) THEN <<>>
    ELSE IF get(b, <<r, c>>) = opponent_piece(player)
         THEN CapturesLoop_GapCloses(b, r + dr, c + dc, dr, dc, player,
                                     Append(buf, <<r, c>>))
         ELSE buf

\* The while loop of _captures_in_dir from cell (r, c) with buffer buf.
RECURSIVE CapturesLoop(_, _, _, _, _, _, _)
CapturesLoop(b, r, c, dr, dc, player, buf) ==
    IF ~(0 <= r /\ r < b.size /\ 0 <= c /\ c < b.size) THEN <<>>
    ELSE LET piece == get(b, <<r, c>>)
         IN  IF piece = opponent_piece(player)
             THEN CapturesLoop(b, r + dr, c + dc, dr, dc, player, Append(buf, <<r, c>>))
             ELSE IF piece = piece_of(player)
                  THEN (IF Len(buf) > 0 THEN buf ELSE <<>>)
                  ELSE <<>>

captures_in_dir(b, start, dr, dc, player) ==
    CapturesLoop(b, start[1] + dr, start[2] + dc, dr, dc, player, <<>>)

RECURSIVE FlipsFrom(_, _, _, _)
FlipsFrom(b, p, player, i) ==
    IF i > Len(DIR8) THEN <<>>
    ELSE captures_in_dir(b, p, DIR8[i][1], DIR8[i][2], player) \o FlipsFrom(b, p, player, i + 1)

\* legal_moves()
legal_moves(g) ==
    {p \in DOMAIN g.board.grid :
        /\ is_empty(g.board, p)
        /\ Len(FlipsFrom(g.board, p, g.current, 1)) > 0}

ReversiIsLegal(g, move) ==
    IF move.resign THEN TRUE
    ELSE IF move.pass_move THEN FALSE
    ELSE IF move.pos = NoPos THEN FALSE
    ELSE IF move.player # g.current THEN FALSE
    ELSE IF ~in_bounds(g.board, move.pos) \/ ~is_empty(g.board, move.pos) THEN FALSE
    ELSE \E i \in 1 .. Len(DIR8) :
            captures_in_dir(g.board, move.pos, DIR8[i][1], DIR8[i][2], move.player) # <<>>

\* apply_move, resign branch
ReversiResign(g, move) == [g EXCEPT !.ended = TRUE, !.winner = Opponent(move.player)]

\* Variant of the placement that turns no disc.
ReversiFlip_PlaceOnly(g, move, flips) ==
    IF flips = <<>> THEN [game |-> g, raised |-> TRUE]
    ELSE [game |-> [g EXCEPT !.board = set(g.board, move.pos, piece_of(move.player)),
                             !.last_pos = move.pos,
                             !.current = Opponent(g.current)],
          raised |-> FALSE]

\* apply_move, placement, given the flips: the game after it, and whether it
\* raised.
ReversiFlip(g, move, flips) ==
    IF flips = <<>> THEN [game |-> g, raised |-> TRUE]
    ELSE [game |->
            [g EXCEPT !.board = SetAll(set(g.board, move.pos, piece_of(move.player)),
                                       SeqToSet(flips), piece_of(move.player)),
                      !.last_pos = move.pos,
                      !.current = Opponent(g.current)],
          raised |-> FALSE]

ReversiPlace(g, move) == ReversiFlip(g, move, FlipsFrom(g.board, move.pos, move.player, 1))

\* ReversiGame.apply_move(move): the game after it, and whether it raised.
ReversiApplyMove(g, move) ==
    IF move.resign THEN [game |-> ReversiResign(g, move), raised |-> FALSE]
    ELSE ReversiPlace(g, move)

\* count_discs()
count_discs(g) ==
    [BLACK |-> Cardinality({q \in DOMAIN g.board.grid : g.board.grid[q] = P_BLACK}),
     WHITE |-> Cardinality({q \in DOMAIN g.board.grid : g.board.grid[q] = P_WHITE})]

(***************************************************************************)
(* factory.py and the polymorphic contract of game.py                      *)
(***************************************************************************)
\* create_game(game_type, size, komi) for a canonical type
create_game(type, size, komi) ==
    CASE type = GOMOKU -> NewGomokuGame(size)
      [] type = GO -> NewGoGame(size, komi)
      [] type = REVERSI -> NewReversiGame(size)

snapshot(g) == IF g.type = GO THEN GoSnapshot(g) ELSE BaseSnapshot(g)
restore(g, snap) == IF g.type = GO THEN GoRestore(g, snap) ELSE BaseRestore(g, snap)

\* is_legal(move): the verdict and the board the call leaves behind
is_legal(g, move) ==
    CASE g.type = GO -> GoIsLegal(g, move)
      [] g.type = GOMOKU -> [legal |-> GomokuIsLegal(g, move), board |-> g.board]
      [] g.type = REVERSI -> [legal |-> ReversiIsLegal(g, move), board |-> g.board]

\* apply_move(move): the game after it, and whether it raised
apply_move(g, move) ==
    CASE g.type = GO -> GoApplyMove(g, move)
      [] g.type = GOMOKU -> [game |-> GomokuApplyMove(g, move), raised |-> FALSE]
      [] g.type = REVERSI -> ReversiApplyMove(g, move)

\* The recorder hook step() calls once the move is applied; snap is the
\* game.snapshot() a keyframe would hold.
NotifyWith(rec, snap, move) ==
    IF move.resign THEN on_resign(rec, snap, move.player)
    ELSE IF move.pass_move THEN on_pass(rec, snap, move.player)
    ELSE on_move(rec, snap, move)

Notify(g, move) == NotifyWith(g.recorder, snapshot(g), move)

OK == "ok"
GameOver == "GameOver"
WrongTurn == "WrongTurn"
IllegalMove == "IllegalMove"
InternalError == "InternalInvariantViolation"

\* Variants of step() without one of its gates.
EndedGate_Off(g) == FALSE
TurnGate_Off(g, move) == FALSE

\* The two gates of step() ahead of the legality check.
EndedGate(g) == g.ended
TurnGate(g, move) == move.player # g.current /\ ~move.resign /\ ~move.pass_move

\* self.history.append(self.snapshot())
PushHistory(g) == [g EXCEPT !.history = Append(@, snapshot(g))]

\* step() after apply_move: the recorder is told unless the engine raised.
StepApplied(ap, move) ==
    IF ap.raised THEN [game |-> ap.game, error |-> InternalError]
    ELSE [game |-> [ap.game EXCEPT !.recorder = Notify(ap.game, move)], error |-> OK]

\* step() after is_legal returned chk; g holds the board is_legal left behind.
StepChecked(g, move, legal) ==
    IF ~legal THEN [game |-> g, error |-> IllegalMove]
    ELSE StepApplied(apply_move(PushHistory(g), move), move)

StepLegality(g, move, chk) ==
    StepChecked([g EXCEPT !.board = chk.board], move, chk.legal)

\* Game.step(move): the game after the call and the error it raised (OK: none).
step(g, move) ==
    IF EndedGate(g) THEN [game |-> g, error |-> GameOver]
    ELSE IF TurnGate(g, move) THEN [game |-> g, error |-> WrongTurn]
    ELSE StepLegality(g, move, is_legal(g, move))

\* Variant of undo that restores the last snapshot and leaves it on the stack.
undo_NoPop(g) ==
    IF g.history = <<>> THEN [game |-> g, ok |-> FALSE]
    ELSE [game |-> restore(g, g.history[Len(g.history)]), ok |-> TRUE]

\* Game.undo(): the game after the call and the boolean it returns.
undo(g) ==
    IF g.history = <<>> THEN [game |-> g, ok |-> FALSE]
    ELSE [game |-> restore([g EXCEPT !.history = SubSeq(@, 1, Len(@) - 1)],
                           g.history[Len(g.history)]),
          ok |-> TRUE]

(***************************************************************************)
(* Serialization: replay.py to_dict / from_dict, game.py and go.py         *)
(* serialize / deserialize.  Game.users is never anything but the pair of  *)
(* None that __init__ gives it once a call has returned normally           *)
(* (set_users raises), so it is written out as that pair and not kept in   *)
(* the game.                                                               *)
(***************************************************************************)
\* self.users
NoUsers == [black |-> None, white |-> None]

CopyEvents(events) ==
    [i \in 1 .. Len(events) |->
        ReplayEvent(events[i].type, events[i].player, events[i].row, events[i].col,
                    events[i].snap_index)]

to_dict(rec) ==
    [enabled |-> rec.enabled, k |-> rec.k, events |-> CopyEvents(rec.events),
     snapshots |-> rec.snapshots]

from_dict(d) ==
    [NewRecorder(DictGet(d, "k", KeyframeEvery)) EXCEPT
        !.enabled = DictGet(d, "enabled", TRUE),
        !.events = CopyEvents(DictGet(d, "events", <<>>)),
        !.snapshots = DictGet(d, "snapshots", <<>>)]

ClassName(type) ==
    CASE type = GO -> "GoGame" [] type = GOMOKU -> "GomokuGame" [] type = REVERSI -> "ReversiGame"

\* A record extended by one entry, as dict.update does.
Updated(d, key, value) ==
    [f \in DOMAIN d \cup {key} |-> IF f = key THEN value ELSE d[f]]

\* The entries every engine writes; "replay" is present only while recording.
BaseSerialize(g) ==
    LET base == BaseSnapshot(g)
        data == [type |-> ClassName(g.type), board |-> base.board,
                 current |-> base.current, ended |-> base.ended,
                 winner |-> base.winner, last |-> base.last,
                 meta |-> [users |-> NoUsers]]
    IN  IF g.recorder.enabled THEN Updated(data, "replay", to_dict(g.recorder)) ELSE data

GoSerialize(g) ==
    Updated(Updated(Updated(Updated(BaseSerialize(g),
        "captured_black", g.captured_black),
        "captured_white", g.captured_white),
        "consecutive_pass", g.consecutive_pass),
        "komi", g.komi)

serialize(g) == IF g.type = GO THEN GoSerialize(g) ELSE BaseSerialize(g)

\* Variant of deserialize that leaves the recorder of the game as it is.
BaseDeserialize_KeepRecorder(g, data) ==
    [g EXCEPT !.board = from_array(data.board),
              !.current = PlayerOfValue(data.current),
              !.ended = data.ended,
              !.winner = IF data.winner # <<>> THEN PlayerOfValue(data.winner[1]) ELSE None,
              !.last_pos = IF DictGet(data, "last", <<>>) # <<>>
                           THEN <<data.last[1], data.last[2]>> ELSE NoPos]

\* Game.deserialize(data); a missing or empty "replay" entry gives a fresh
\* recorder.  The undo history is not touched.
BaseDeserialize(g, data) ==
    [g EXCEPT !.board = from_array(data.board),
              !.current = PlayerOfValue(data.current),
              !.ended = data.ended,
              !.winner = IF data.winner # <<>> THEN PlayerOfValue(data.winner[1]) ELSE None,
              !.last_pos = IF DictGet(data, "last", <<>>) # <<>>
                           THEN <<data.last[1], data.last[2]>> ELSE NoPos,
              !.recorder = IF "replay" \in DOMAIN data
                           THEN from_dict(data.replay)
                           ELSE NewRecorder(KeyframeEvery)]

GoDeserialize(g, data) ==
    [BaseDeserialize(g, data) EXCEPT
        !.captured_black = DictGet(data, "captured_black", 0),
        !.captured_white = DictGet(data, "captured_white", 0),
        !.consecutive_pass = DictGet(data, "consecutive_pass", 0),
        !.komi = DictGet(data, "komi", DefaultKomi)]

deserialize(g, data) ==
    IF g.type = GO THEN GoDeserialize(g, data) ELSE BaseDeserialize(g, data)

(***************************************************************************)
(* game.py: Game.reset and Game.record_skip; go.py, reversi.py: reset      *)
(***************************************************************************)
\* Game.reset(size)
BaseReset(g, size) ==
    [g EXCEPT !.board = NewBoard(size),
              !.current = PC_BLACK,
              !.history = <<>>,
              !.ended = FALSE,
              !.winner = None,
              !.last_pos = NoPos,
              !.recorder = NewRecorder(g.recorder.k)]

\* GoGame.reset(size) with komi left out of the call
GoReset(g, size) ==
    [BaseReset(g, size) EXCEPT !.captured_black = 0,
                               !.captured_white = 0,
                               !.consecutive_pass = 0]

\* Variant of reset that leaves the board of the base reset.
ReversiReset_Bare(g, size) == BaseReset(g, size)

\* ReversiGame.reset(size)
ReversiReset(g, size) == init_start(BaseReset(g, size))

reset(g, size) ==
    CASE g.type = GO -> GoReset(g, size)
      [] g.type = GOMOKU -> BaseReset(g, size)
      [] g.type = REVERSI -> ReversiReset(g, size)

\* Variant of record_skip that records nothing.
record_skip_Off(g, player) == g

\* Game.record_skip(player)
record_skip(g, player) ==
    IF g.recorder.enabled
    THEN [g EXCEPT !.recorder = on_skip(@, snapshot(g), player)]
    ELSE g

(***************************************************************************)
(* controller.py: UIController, both sides played by people                *)
(***************************************************************************)
Ended == "Ended"

\* Variant of the end on the count of discs that hands the game to the side
\* with fewer discs.
EndByCount_Minority(g, counts) ==
    [g EXCEPT !.ended = TRUE,
              !.winner = IF counts.BLACK > counts.WHITE THEN PC_WHITE
                         ELSE IF counts.WHITE > counts.BLACK THEN PC_BLACK
                         ELSE None]

\* The end of a Reversi game on the count of discs.
EndByCount(g, counts) ==
    [g EXCEPT !.ended = TRUE,
              !.winner = IF counts.BLACK > counts.WHITE THEN PC_BLACK
                         ELSE IF counts.WHITE > counts.BLACK THEN PC_WHITE
                         ELSE None]

\* _reversi_auto_skip_or_end() once the turn is handed over and the skip is
\* recorded: the game ends when the other side cannot move either.
SkipOrEnd(g1) ==
    IF legal_moves(g1) = {} THEN EndByCount(g1, count_discs(g1)) ELSE g1

\* Variant that never hands the turn over.
reversi_auto_skip_or_end_Off(g) == [game |-> g, ret |-> FALSE]

\* _reversi_auto_skip_or_end(): the game after it and the boolean it returns.
reversi_auto_skip_or_end(g) ==
    IF g.type # REVERSI \/ g.ended THEN [game |-> g, ret |-> FALSE]
    ELSE IF legal_moves(g) # {} THEN [game |-> g, ret |-> FALSE]
    ELSE [game |-> SkipOrEnd(record_skip([g EXCEPT !.current = Opponent(@)], g.current)),
          ret |-> TRUE]

\* _reversi_check_full_end()
reversi_check_full_end(g) ==
    IF g.type # REVERSI \/ g.ended THEN g
    ELSE IF BoardFull(g.board) THEN EndByCount(g, count_discs(g))
    ELSE g

\* _maybe_ai_play_once() when no side is played by an agent.
maybe_ai_play_once(g) ==
    IF g.ended THEN [game |-> g, ret |-> FALSE]
    ELSE reversi_auto_skip_or_end(g)

\* _maybe_ai_play_loop()
RECURSIVE PlayLoop(_, _)
PlayLoop(r, safety) ==
    IF ~r.ret \/ safety = 0 THEN r.game
    ELSE PlayLoop(maybe_ai_play_once(r.game), safety - 1)

maybe_ai_play_loop(g) == PlayLoop([game |-> g, ret |-> TRUE], 512)

\* click_canvas() after step() succeeded: the full-board check, then the skip.
ClickAfter(g1) == IF g1.ended THEN g1 ELSE reversi_auto_skip_or_end(g1).game

\* click_canvas() after step() returned or raised.
ClickPlaced(r) ==
    IF r.error # OK THEN r
    ELSE [game |-> maybe_ai_play_loop(ClickAfter(reversi_check_full_end(r.game))),
          error |-> OK]

\* click_canvas() after the skip check it starts with.
ClickStep(pre, pos) ==
    IF pre.ended THEN [game |-> pre, error |-> Ended]
    ELSE ClickPlaced(step(pre, Move(pre.current, pos, FALSE, FALSE)))

\* click_canvas(evt) for a click that lands on cell pos: the game after it and
\* the error shown (OK: none).
click_canvas(g, pos) == ClickStep(reversi_auto_skip_or_end(g).game, pos)

\* do_pass(): only Go has a pass; the game after the call and its error.
NotGo == "NotGo"

do_pass(g) ==
    IF g.type # GO THEN [game |-> g, error |-> NotGo]
    ELSE IF g.ended THEN [game |-> g, error |-> Ended]
    ELSE step(g, Move(g.current, NoPos, TRUE, FALSE))

(***************************************************************************)
(* replay.py: Replayer                                                     *)
(***************************************************************************)
\* _game = None
NoGame == [type |-> "none"]

\* Replayer()
NewReplayer ==
    [events |-> <<>>, snapshots |-> <<>>, k |-> 10, index |-> -1, game |-> NoGame]

\* Variant of load that leaves the recorder of the new game as it is.
LoadGame_Recording(g0, snapshots) ==
    IF snapshots # <<>> THEN restore(g0, snapshots[1]) ELSE g0

\* load(init_meta, snapshots, events, k) after bind_factory(create_game)
LoadGame(g0, snapshots) ==
    [(IF snapshots # <<>> THEN restore(g0, snapshots[1]) ELSE g0)
        EXCEPT !.recorder.enabled = FALSE]

load(init_meta, snapshots, events, k) ==
    [events |-> events,
     snapshots |-> snapshots,
     k |-> IF k > 1 THEN k ELSE 1,
     index |-> -1,
     game |-> LoadGame(create_game(init_meta.type, init_meta.size, init_meta.komi),
                       snapshots)]

\* The move _apply_event_no_step builds from an event once current is set.
EventMove(g, e) ==
    CASE e.type = "move" ->
            Move(g.current,
                 IF e.row # <<>> /\ e.col # <<>> THEN <<e.row[1], e.col[1]>> ELSE NoPos,
                 FALSE, FALSE)
      [] e.type = "pass" -> Move(g.current, NoPos, TRUE, FALSE)
      [] e.type = "resign" -> Move(g.current, NoPos, FALSE, TRUE)

\* _apply_event_no_step after is_legal returned chk: an illegal event is
\* dropped, a legal one applied without step().
ApplyChecked(g, mv, chk) ==
    IF ~chk.legal THEN [g EXCEPT !.board = chk.board]
    ELSE apply_move([g EXCEPT !.board = chk.board], mv).game

ApplyAs(g, mv) == ApplyChecked(g, mv, is_legal(g, mv))

\* _apply_event_no_step(e) once current is the player of the event.
ApplyEvent(g1, e) ==
    IF e.type \notin {"move", "pass", "resign"} THEN g1
    ELSE ApplyAs(g1, EventMove(g1, e))

\* _apply_event_no_step(e)
apply_event_no_step(g, e) ==
    IF e.type = "skip" THEN [g EXCEPT !.current = Opponent(@)]
    ELSE ApplyEvent([g EXCEPT !.current = IF e.player = "BLACK" THEN PC_BLACK ELSE PC_WHITE],
                    e)

\* Variant of the loop of seek that ends at the first event is_legal rejects.
RECURSIVE SeekLoop_StopAtRejected(_, _, _, _)
SeekLoop_StopAtRejected(g, events, i, n) ==
    IF i > n THEN g
    ELSE IF /\ events[i + 1].type # "skip"
            /\ ~is_legal([g EXCEPT !.current = IF events[i + 1].player = "BLACK"
                                                THEN PC_BLACK ELSE PC_WHITE],
                          EventMove(g, events[i + 1])).legal
         THEN g
         ELSE SeekLoop_StopAtRejected(apply_event_no_step(g, events[i + 1]),
                                      events, i + 1, n)

\* seek(n): for i in range(start_event, n + 1)
RECURSIVE SeekLoop(_, _, _, _)
SeekLoop(g, events, i, n) ==
    IF i > n THEN g
    ELSE SeekLoop(apply_event_no_step(g, events[i + 1]), events, i + 1, n)

\* seek(n): the nearest keyframe at or before n
KeyIdx(rp, n) ==
    IF n >= 0
    THEN (IF n \div rp.k < Len(rp.snapshots) - 1 THEN n \div rp.k ELSE Len(rp.snapshots) - 1)
    ELSE 0

\* Variant of seek that goes on from the game as it stands, without the
\* keyframe.
SeekFrom_NoRestore(rp, n, key_idx) ==
    [rp EXCEPT !.game = SeekLoop(rp.game, rp.events, key_idx * rp.k, n),
               !.index = n]

\* seek(n): the keyframe is restored and the events from it up to n applied.
SeekFrom(rp, n, key_idx) ==
    [rp EXCEPT !.game = SeekLoop([restore(rp.game, rp.snapshots[key_idx + 1])
                                     EXCEPT !.recorder.enabled = FALSE],
                                 rp.events, key_idx * rp.k, n),
               !.index = n]

\* seek(n) without keyframes: the events are applied from the start.
SeekBare(rp, n) ==
    [rp EXCEPT !.game = SeekLoop([rp.game EXCEPT !.recorder.enabled = FALSE],
                                 rp.events, 0, n),
               !.index = n]

\* seek(n) after n is clamped
SeekClamped(rp, n) ==
    IF rp.game.type = NoGame.type THEN [rp EXCEPT !.index = n]
    ELSE IF n = rp.index THEN rp
    ELSE IF rp.snapshots # <<>> THEN SeekFrom(rp, n, KeyIdx(rp, n))
    ELSE SeekBare(rp, n)

total(rp) == Len(rp.events)

\* seek(n)
seek(rp, n) ==
    SeekClamped(rp, IF n > total(rp) - 1
                    THEN (IF total(rp) - 1 > -1 THEN total(rp) - 1 ELSE -1)
                    ELSE (IF n > -1 THEN n ELSE -1))

\* Variant of step_next without the test of the end of the log.
step_next_Unchecked(rp) == [rp |-> seek(rp, rp.index + 1), ret |-> TRUE]

\* step_next(): the replayer after the call and the boolean it returns.
step_next(rp) ==
    IF rp.index >= total(rp) - 1 THEN [rp |-> rp, ret |-> FALSE]
    ELSE [rp |-> seek(rp, rp.index + 1), ret |-> TRUE]

\* step_prev(): the replayer after the call and the boolean it returns.
step_prev(rp) ==
    IF rp.index <= -1 THEN [rp |-> rp, ret |-> FALSE]
    ELSE [rp |-> seek(rp, rp.index - 1), ret |-> TRUE]

\* reset_to_start()
reset_to_start(rp) ==
    [rp EXCEPT !.index = -1,
               !.game = IF rp.game.type # NoGame.type /\ rp.snapshots # <<>>
                        THEN restore(@, rp.snapshots[1])
                        ELSE @]

\* UIController._prepare_replayer_from_data(canon_type, rep_dict)
prepare_replayer_from_data(canon_type, size, komi, rep_dict) ==
    load([type |-> canon_type, size |-> size, komi |-> komi],
         rep_dict.snapshots, CopyEvents(rep_dict.events), rep_dict.k)

(***************************************************************************)
(* controller.py: save, load, undo and the recording switch                *)
(***************************************************************************)
\* normalize_game_type(game_type), which lowers the case of the name first;
\* Unknown stands for the ValueError.
Unknown == "unknown"

normalize_game_type(t) ==
    CASE t \in {GO, "weiqi", "gogame", "GoGame"} -> GO
      [] t \in {GOMOKU, "gobang", "renju", "gomokugame", "GomokuGame"} -> GOMOKU
      [] t \in {REVERSI, "othello", "reversigame", "ReversiGame"} -> REVERSI
      [] OTHER -> Unknown

\* Game.set_users(black, white): the names are stored, then
\* self.recorder.set_users is called, which Recorder does not have, so the
\* call raises AttributeError.
set_users(g) == [game |-> g, raised |-> TRUE]

\* The names save() writes when nobody is logged in.
GuestUsers == [black |-> "guest", white |-> "guest"]

\* save(text_path): the object written to the file.
controller_save(c, g) ==
    [meta |-> [type |-> normalize_game_type(c.game_type),
               size |-> c.size,
               komi |-> IF "komi" \in DOMAIN g THEN <<g.komi>> ELSE <<>>,
               users |-> GuestUsers],
     data |-> serialize(g)]

\* A file open() or json.load() fails on.
Unreadable == [unreadable |-> TRUE]

\* _stop_play_thread() when no playback thread is alive
stop_play_thread(c) == [c EXCEPT !.play_flag = FALSE, !.play_ref = FALSE]

\* What load() leaves behind: the game, the replayer, the other fields, and
\* whether it went through (ok) or ended in its except clause.
LoadResult(g, rp, c, ok) == [game |-> g, replayer |-> rp, ctl |-> c, ok |-> ok]

\* load(): the type the new game is created with.
LoadType(meta, data) ==
    IF DictGet(meta, "type", "") # "" THEN normalize_game_type(meta.type)
    ELSE IF DictGet(data, "type", "") # ""
              /\ normalize_game_type(data.type) # Unknown
         THEN normalize_game_type(data.type)
         ELSE GOMOKU

\* load(): self.komi = meta.get("komi", 7.5) or 7.5
LoadKomi(meta) ==
    LET k == DictGet(meta, "komi", <<DefaultKomi>>)
    IN  IF k = <<>> \/ k[1] = 0 THEN DefaultKomi ELSE k[1]

\* Game.deserialize(data) on a data section without "current": the board is
\* assigned, then data["current"] raises KeyError.
DeserializeChecked(g0, data) ==
    IF "current" \notin DOMAIN data
    THEN [game |-> [g0 EXCEPT !.board = from_array(data.board)], raised |-> TRUE]
    ELSE [game |-> deserialize(g0, data), raised |-> FALSE]

\* load(): the names the game is given, <<>> when there are none.
LoadUsers(meta, data) ==
    IF "meta" \in DOMAIN data
    THEN (IF DictGet(meta, "users", <<>>) # <<>> THEN meta.users
          ELSE DictGet(data.meta, "users", <<>>))
    ELSE <<>>

\* load() from "replay preparation" on, for the deserialized game g.
LoadReplay(g, c, gt, data) ==
    IF "replay" \in DOMAIN data /\ DictGet(data.replay, "events", <<>>) # <<>>
    THEN LET rp == prepare_replayer_from_data(gt, c.size, c.komi, data.replay)
         IN  LoadResult(rp.game, rp, [c EXCEPT !.replay_mode = TRUE], TRUE)
    ELSE LoadResult(maybe_ai_play_loop(g), NewReplayer,
                 [c EXCEPT !.replay_mode = FALSE], TRUE)

\* load() once self.game is the new game: deserialize, the user names, the
\* replay.
LoadInto(g0, rp, c, gt, meta, data) ==
    LET d == DeserializeChecked(g0, data)
    IN  IF d.raised THEN LoadResult(d.game, rp, c, FALSE)
        ELSE IF LoadUsers(meta, data) # <<>> /\ set_users(d.game).raised
             THEN LoadResult(set_users(d.game).game, rp, c, FALSE)
             ELSE LoadReplay(d.game, c, gt, data)

\* load() once the type gt is known: game_type, size and komi are assigned,
\* then the game is created.
LoadAs(g, rp, c, gt, meta, data) ==
    IF "board" \notin DOMAIN data
    THEN LoadResult(g, rp, [c EXCEPT !.game_type = gt], FALSE)
    ELSE LET c1 == [c EXCEPT !.game_type = gt,
                             !.size = DictGet(meta, "size", Len(data.board)),
                             !.komi = LoadKomi(meta)]
         IN  IF ~ValidSize(c1.size) THEN LoadResult(g, rp, c1, FALSE)
             ELSE LoadInto(create_game(gt, c1.size, c1.komi), rp, c1, gt, meta, data)

\* load() of an object json.load returned.
LoadObject(g, rp, c, obj) ==
    LET meta == DictGet(obj, "meta", <<>>)
        data == DictGet(obj, "data", <<>>)
    IN  IF data = <<>> THEN LoadResult(g, rp, c, FALSE)
        ELSE IF LoadType(meta, data) = Unknown THEN LoadResult(g, rp, c, FALSE)
        ELSE LoadAs(g, rp, c, LoadType(meta, data), meta, data)

\* UIController.load(text_path) for a file that holds obj; g is self.game,
\* rp self.replayer, c the other fields.
controller_load(g, rp, c, obj) ==
    IF obj = Unreadable THEN LoadResult(g, rp, stop_play_thread(c), FALSE)
    ELSE LoadObject(g, rp, stop_play_thread(c), obj)

\* Variant of the handlers that act in replay mode too.
ReplayGate_Off(c) == FALSE

\* if self.replay_mode: return ..., at the head of click_canvas, do_pass,
\* resign and undo
ReplayGate(c) == c.replay_mode

Blocked == "replay_mode"

\* The handler whose body gives r, behind the gate.
Gated(c, g, r) == IF ReplayGate(c) THEN [game |-> g, error |-> Blocked] ELSE r

\* UIController.resign() past the gate
resign(g) ==
    IF g.ended THEN [game |-> g, error |-> Ended]
    ELSE step(g, Move(g.current, NoPos, FALSE, TRUE))

\* UIController.undo(): the game after the call and what it answers.
controller_undo(g, c) ==
    IF ReplayGate(c) THEN [game |-> g, error |-> Blocked]
    ELSE [game |-> undo(g).game, error |-> IF undo(g).ok THEN "undo_true" ELSE "undo_false"]

\* replay_toggle_record(on): start() empties the log, stop() keeps it.
replay_toggle_record(g, on) ==
    IF on
    THEN [g EXCEPT !.recorder.enabled = TRUE, !.recorder.events = <<>>,
                   !.recorder.snapshots = <<>>]
    ELSE [g EXCEPT !.recorder.enabled = FALSE]

(***************************************************************************)
(* State machine: one live game driven through step() and undo()           *)
(***************************************************************************)
VARIABLES
    game,       \* the Game object
    result,     \* what the last call returned or raised
    played,     \* the moves accepted by step() and not undone since, in order
    replayer,   \* the Replayer object
    ctl         \* the other fields of the UIController

vars == <<game, result, played, replayer, ctl>>

\* UIController() followed by new_game for the game g: the fields besides
\* self.game and self.replayer.  play_ref: self._play_thread is set;
\* play_thread: where the playback thread stands ("none": no live thread),
\* with the n and the i of the seek it is in; ui: the handler that is waiting
\* in join(); calls: the step_next calls the loop made since replay_pause or
\* replay_stop returned (counted up to 2).
NewController(g) ==
    [game_type |-> g.type,
     size |-> g.board.size,
     komi |-> DefaultKomi,
     replay_mode |-> FALSE,
     play_flag |-> FALSE,
     play_ref |-> FALSE,
     play_thread |-> "none",
     seek_n |-> -1,
     seek_i |-> 0,
     old_thread |-> "none",
     old_n |-> -1,
     old_i |-> 0,
     ai_black |-> None,
     ai_white |-> None,
     ui |-> "idle",
     calls |-> 0]

\* The outcome r of a call of step(move) becomes the state.
Outcome(move, r) ==
    /\ game' = r.game
    /\ result' = r.error
    /\ played' = IF r.error = OK THEN Append(played, move) ELSE played
    /\ UNCHANGED <<replayer, ctl>>

\* Cells placements are drawn from, nearest the corner first.
CellOrder ==
    << <<0, 0>>, <<0, 1>>, <<1, 0>>, <<1, 1>>, <<0, 2>>, <<2, 0>>,
       <<1, 2>>, <<2, 1>>, <<2, 2>>, <<0, 3>>, <<3, 0>> >>

\* The cells placements are drawn from.  Go and five-in-a-row: the corner and
\* its two neighbours (enough for a capture and for a suicide).  Reversi: a
\* legal first move of Black, a legal reply of White, and an occupied cell.
CornerCells == {<<0, 0>>, <<0, 1>>, <<1, 0>>}
OpeningCells ==
    {<<Size \div 2 - 2, Size \div 2 - 1>>, <<Size \div 2 - 2, Size \div 2>>,
     <<Size \div 2 - 1, Size \div 2 - 1>>}

PlayCells(type) == IF type = REVERSI THEN OpeningCells ELSE CornerCells

\* A position outside the board.
OffBoard == {<<0, Size>>}

Moves(type) ==
    {Move(c, p, FALSE, FALSE) : c \in PlayerColor, p \in PlayCells(type) \cup OffBoard \cup {NoPos}}
    \cup {Move(c, NoPos, TRUE, FALSE) : c \in PlayerColor}
    \cup {Move(c, NoPos, FALSE, TRUE) : c \in PlayerColor}

Init ==
    /\ game \in {create_game(t, Size, DefaultKomi) : t \in GameTypes}
    /\ result = "new"
    /\ played = <<>>
    /\ replayer = NewReplayer
    /\ ctl = NewController(game)

\* step(move); at most MaxSteps calls are let succeed.
StepWithin(move, r) ==
    /\ Len(game.recorder.events) < MaxSteps \/ r.error # OK
    /\ Outcome(move, r)

Step(move) == StepWithin(move, step(game, move))

Undone(r) ==
    /\ game' = r.game
    /\ result' = IF r.ok THEN "undo_true" ELSE "undo_false"
    /\ played' = IF r.ok THEN SubSeq(played, 1, Len(played) - 1) ELSE played
    /\ UNCHANGED <<replayer, ctl>>

Undo == Undone(undo(game))

Next ==
    \/ \E move \in Moves(game.type) : Step(move)
    \/ Undo

Spec == Init /\ [][Next]_vars

(***************************************************************************)
(* Territory game continued from a loaded position.                        *)
(*                                                                         *)
(* A position is a board whose stones lie on the first PosCells cells of   *)
(* CellOrder and whose groups all have a liberty, saved while recording    *)
(* was off, right after a pass (consecutive_pass = 1, no last position)    *)
(* that followed a placement of the side now to move.  Every such position *)
(* is reachable by play: the stones of the other side are placed first     *)
(* while this side passes, then this side's stones, each group grown from  *)
(* a stone next to one of its final liberties, then the other side passes. *)
(***************************************************************************)
GoRegion == {CellOrder[i] : i \in 1 .. PosCells}

BoardOf(size, region, f) ==
    [size |-> size,
     grid |-> [q \in Cells(size) |-> IF q \in region THEN f[q] ELSE EMPTY]]

AllGroupsAlive(b, region) ==
    \A q \in region :
        get(b, q) # EMPTY => flood_group_and_liberties(b, q).libs # {}

GoPositions(size, region) ==
    {b \in {BoardOf(size, region, f) : f \in [region -> Piece]} :
        AllGroupsAlive(b, region)}

SavedGo(b, cur) ==
    [type |-> ClassName(GO), board |-> to_array(b), current |-> PlayerValue(cur),
     ended |-> FALSE, winner |-> <<>>, last |-> <<>>,
     captured_black |-> 0, captured_white |-> 0, consecutive_pass |-> 1,
     komi |-> DefaultKomi]

LoadedGoGames(size, region) ==
    {deserialize(create_game(GO, size, DefaultKomi), SavedGo(b, cur)) :
        <<b, cur>> \in {bc \in GoPositions(size, region) \X PlayerColor :
                          \E q \in region : get(bc[1], q) = from_player(bc[2])}}

\* Board sizes of the fresh games: the smallest size and the next one.
FreshSizes == {Size, Size + 1}

InitGoPos ==
    /\ game \in LoadedGoGames(Size, GoRegion)
                 \cup {create_game(GO, n, DefaultKomi) : n \in FreshSizes}
    /\ result = "new"
    /\ played = <<>>
    /\ replayer = NewReplayer
    /\ ctl = NewController(game)

GoPosMoves(region) ==
    {Move(c, q, FALSE, FALSE) : c \in PlayerColor, q \in region}
    \cup {Move(c, NoPos, TRUE, FALSE) : c \in PlayerColor}
    \cup {Move(c, NoPos, FALSE, TRUE) : c \in PlayerColor}

\* The first call made on the position.
FirstStep(move) ==
    /\ result = "new"
    /\ Outcome(move, step(game, move))

\* After it, the side to move passes or resigns until the game is over.
Finish(move) ==
    /\ game.recorder.events # <<>>
    /\ result # GameOver
    /\ move.player = game.current
    /\ Outcome(move, step(game, move))

NextGoPos ==
    \/ \E move \in GoPosMoves(GoRegion) : FirstStep(move)
    \/ \E c \in PlayerColor : Finish(Move(c, NoPos, TRUE, FALSE))
    \/ \E c \in PlayerColor : Finish(Move(c, NoPos, FALSE, TRUE))

SpecGoPos == InitGoPos /\ [][NextGoPos]_vars

\* The same on the smaller positions whose final states are scored.
GoScoreRegion == {CellOrder[i] : i \in 1 .. ScoreCells}

InitGoScore ==
    /\ game \in LoadedGoGames(Size, GoScoreRegion)
                 \cup {create_game(GO, n, DefaultKomi) : n \in FreshSizes}
    /\ result = "new"
    /\ played = <<>>
    /\ replayer = NewReplayer
    /\ ctl = NewController(game)

\* One call on the position (a resignation among them), then passes to the end.
NextGoScore ==
    \/ \E move \in GoPosMoves(GoScoreRegion) : FirstStep(move)
    \/ \E c \in PlayerColor : Finish(Move(c, NoPos, TRUE, FALSE))

SpecGoScore == InitGoScore /\ [][NextGoScore]_vars

(***************************************************************************)
(* Five-in-a-row continued from a loaded position.                         *)
(*                                                                         *)
(* A position holds stones on one line of LineLen cells (one line per      *)
(* orientation) and, on cells away from the lines, as many further stones  *)
(* of one color as make the counts those of alternate play; no run of five *)
(* exists yet; the last position is a stone of the side that just moved.   *)
(* Stones are never removed in this game, so every such board is reached   *)
(* by placing its stones alternately in any order.                         *)
(***************************************************************************)
LineCell(o, i) ==
    CASE o = 1 -> <<i, 0>>
      [] o = 2 -> <<0, i>>
      [] o = 3 -> <<i, i>>
      [] o = 4 -> <<i, LineLen - 1 - i>>

LineCells(o) == {LineCell(o, i) : i \in 0 .. LineLen - 1}
AllLineCells == UNION {LineCells(o) : o \in 1 .. 4}

Fillers ==
    << <<7, 1>>, <<7, 2>>, <<7, 3>>, <<7, 4>>, <<7, 6>>,
       <<5, 7>>, <<4, 7>>, <<3, 7>>, <<2, 7>> >>

CountOf(f, piece) == Cardinality({i \in DOMAIN f : f[i] = piece})

\* The board with line o filled as f says, balanced for `cur` to move.
GomokuBoard(size, o, f, cur) ==
    LET d == CountOf(f, P_BLACK) - CountOf(f, P_WHITE) - (IF cur = PC_WHITE THEN 1 ELSE 0)
        n == IF d > 0 THEN d ELSE -d
        fill == IF d > 0 THEN P_WHITE ELSE P_BLACK
        onLine == [q \in LineCells(o) |->
                     f[CHOOSE i \in 0 .. LineLen - 1 : LineCell(o, i) = q]]
    IN  SetAll(BoardOf(size, LineCells(o), onLine),
               {Fillers[i] : i \in 1 .. n}, fill)

\* Some five consecutive cells of one line all hold `piece`, q among them.
InFive(b, q, piece) ==
    \E i \in 1 .. 4 : \E k \in 0 .. 4 :
        \A j \in 0 .. 4 :
            LET r == <<q[1] + (j - k) * Dirs5[i][1], q[2] + (j - k) * Dirs5[i][2]>>
            IN  in_bounds(b, r) /\ get(b, r) = piece

NoFive(b) == \A q \in DOMAIN b.grid : b.grid[q] = EMPTY \/ ~InFive(b, q, b.grid[q])

SavedGomoku(b, cur) ==
    LET prev == {q \in DOMAIN b.grid : b.grid[q] = from_player(Opponent(cur))}
        lastq == CHOOSE q \in prev : TRUE
    IN  [type |-> ClassName(GOMOKU), board |-> to_array(b), current |-> PlayerValue(cur),
         ended |-> FALSE, winner |-> <<>>,
         last |-> IF prev = {} THEN <<>> ELSE <<lastq[1], lastq[2]>>]

LoadedGomokuGames(size) ==
    {deserialize(create_game(GOMOKU, size, DefaultKomi), SavedGomoku(b, cur)) :
        <<b, cur>> \in {bc \in {<<GomokuBoard(size, o, f, c), c>> :
                                  o \in 1 .. 4, f \in [0 .. LineLen - 1 -> Piece],
                                  c \in PlayerColor} :
                          NoFive(bc[1])}}

InitGomokuPos ==
    /\ game \in LoadedGomokuGames(Size)
    /\ result = "new"
    /\ played = <<>>
    /\ replayer = NewReplayer
    /\ ctl = NewController(game)

\* Placements by the side to move on the cells of the lines, and resignations.
GomokuPosMoves(cur) ==
    {Move(cur, q, FALSE, FALSE) : q \in AllLineCells}
    \cup {Move(c, NoPos, FALSE, TRUE) : c \in PlayerColor}

NextGomokuPos == \E move \in GomokuPosMoves(game.current) : FirstStep(move)

SpecGomokuPos == InitGomokuPos /\ [][NextGomokuPos]_vars

(***************************************************************************)
(* Games played through the controller: clicks on the board.               *)
(*                                                                         *)
(* Reversi is played from the start: any legal cell or the corner for the  *)
(* first MaxSteps moves, and four recorded games move by move: one with a  *)
(* skipped turn, two that end when neither side can move, one that ends    *)
(* on a full board with equal counts.  Five-in-a-row is played from the    *)
(* start and on boards with one or two empty cells left.                   *)
(***************************************************************************)
SkipLine ==
    << <<2, 3>>, <<2, 2>>, <<2, 1>>, <<1, 1>>, <<4, 5>>, <<2, 0>>,
       <<0, 0>>, <<0, 2>>, <<2, 4>>, <<1, 2>>, <<0, 3>>, <<0, 1>> >>

WipeoutLine ==
    << <<4, 5>>, <<5, 3>>, <<4, 2>>, <<3, 5>>, <<2, 4>>, <<5, 5>>,
       <<4, 6>>, <<5, 4>>, <<6, 4>> >>

WhiteWinLine ==
    << <<4, 5>>, <<5, 5>>, <<5, 4>>, <<3, 5>>, <<2, 4>>, <<1, 3>>,
       <<2, 3>>, <<5, 3>>, <<1, 2>>, <<0, 1>> >>

DrawLine ==
    << <<3, 2>>, <<2, 4>>, <<1, 5>>, <<2, 2>>, <<4, 2>>, <<4, 1>>,
       <<5, 4>>, <<2, 3>>, <<3, 1>>, <<5, 5>>, <<2, 1>>, <<5, 3>>,
       <<6, 4>>, <<6, 3>>, <<4, 6>>, <<5, 6>>, <<5, 0>>, <<5, 1>>,
       <<6, 6>>, <<1, 1>>, <<6, 0>>, <<2, 5>>, <<7, 3>>, <<7, 5>>,
       <<3, 5>>, <<7, 2>>, <<6, 5>>, <<2, 6>>, <<1, 2>>, <<7, 6>>,
       <<4, 5>>, <<1, 3>>, <<0, 3>>, <<5, 7>>, <<7, 7>>, <<0, 4>>,
       <<1, 0>>, <<5, 2>>, <<0, 1>>, <<6, 1>>, <<1, 7>>, <<0, 0>>,
       <<3, 6>>, <<0, 2>>, <<0, 5>>, <<6, 7>>, <<4, 7>>, <<7, 4>>,
       <<4, 0>>, <<0, 6>>, <<7, 1>>, <<2, 0>>, <<3, 0>>, <<1, 6>>,
       <<6, 2>>, <<7, 0>>, <<3, 7>>, <<2, 7>>, <<1, 4>>, <<0, 7>> >>

ReversiLines == {SkipLine, WipeoutLine, WhiteWinLine, DrawLine}

\* The next cell of every line the moves s made so far are the start of.
NextOnLine(lines, s) ==
    {L[Len(s) + 1] : L \in {L \in lines : /\ Len(s) < Len(L)
                                          /\ \A i \in 1 .. Len(s) : s[i].pos = L[i]}}

\* A full board of five-in-a-row without a run of five: runs of two along the
\* rows and both diagonals, alternation along the columns.
FullPattern(size) ==
    [size |-> size,
     grid |-> [q \in Cells(size) |->
                 IF (q[2] + 2 * q[1]) % 4 < 2 THEN P_BLACK ELSE P_WHITE]]

\* The cells left empty, and the cells whose color is changed.
OpenCells == {<<0, c>> : c \in 2 .. 7}
TurnedCells == {<<0, 4>>, <<0, 5>>, <<7, 0>>, <<7, 1>>}

NearFullBoard(size, open, turned) ==
    [size |-> size,
     grid |-> [q \in Cells(size) |->
                 IF q \in open THEN EMPTY
                 ELSE IF q \in turned THEN OppPiece(FullPattern(size).grid[q])
                 ELSE FullPattern(size).grid[q]]]

\* The counts of alternate play that started with Black, `cur` to move.
Balanced(b, cur) ==
    Cardinality({q \in DOMAIN b.grid : b.grid[q] = P_BLACK})
        = Cardinality({q \in DOMAIN b.grid : b.grid[q] = P_WHITE})
            + (IF cur = PC_WHITE THEN 1 ELSE 0)

NearFullGames(size) ==
    {deserialize(create_game(GOMOKU, size, DefaultKomi), SavedGomoku(b, cur)) :
        <<b, cur>> \in {bc \in {<<NearFullBoard(size, open, turned), c>> :
                                  open \in {o \in SUBSET OpenCells : Cardinality(o) \in {1, 2}},
                                  turned \in SUBSET TurnedCells,
                                  c \in PlayerColor} :
                          Balanced(bc[1], bc[2]) /\ NoFive(bc[1])}}

InitClick ==
    /\ game \in {create_game(REVERSI, n, DefaultKomi) : n \in FreshSizes}
                 \cup {create_game(GOMOKU, Size, DefaultKomi)}
                 \cup NearFullGames(Size)
    /\ result = "new"
    /\ played = <<>>
    /\ replayer = NewReplayer
    /\ ctl = NewController(game)

\* The cells clicked.
ClickCells(g, s) ==
    IF g.type = REVERSI
    THEN (IF Len(g.recorder.events) < MaxSteps THEN legal_moves(g) \cup {<<0, 0>>} ELSE {})
         \cup NextOnLine(ReversiLines, s)
    ELSE (IF Len(g.recorder.events) < MaxSteps THEN OpenCells \cup {<<0, 0>>} ELSE {})

\* The move click_canvas hands to step().
ClickMove(g, pos) == Move(reversi_auto_skip_or_end(g).game.current, pos, FALSE, FALSE)

\* A click on a cell.
Click(pos) == Outcome(ClickMove(game, pos), click_canvas(game, pos))

\* step() of a pass, called on the game directly.
StepPass(c) ==
    Outcome(Move(c, NoPos, TRUE, FALSE), step(game, Move(c, NoPos, TRUE, FALSE)))

\* reset(size) with the size the board has.
Reset ==
    /\ game' = reset(game, game.board.size)
    /\ result' = "reset"
    /\ played' = <<>>
    /\ UNCHANGED <<replayer, ctl>>

NextClick ==
    \/ \E pos \in ClickCells(game, played) : Click(pos)
    \/ \E c \in PlayerColor : StepPass(c)
    \/ Reset

SpecClick == InitClick /\ [][NextClick]_vars

(***************************************************************************)
(* A game recorded through the controller, then replayed.                  *)
(*                                                                         *)
(* The live game is played for MaxSteps events on any cell of a small set  *)
(* and along recorded games long enough for a second keyframe: a Go game   *)
(* with a capture and passes, two games of five-in-a-row (one won on the   *)
(* event the second keyframe is taken at), the reversi games with a        *)
(* skipped turn and with an end by a skip.  replay_enter_from_current()    *)
(* loads the log; from then on only the cursor moves, and `game` keeps the *)
(* live game as it was.                                                    *)
(***************************************************************************)
\* NoPos stands for a pass.
GoLine ==
    << <<0, 1>>, <<0, 0>>, <<1, 0>>, NoPos, <<2, 2>>, <<3, 3>>, <<2, 3>>,
       <<3, 2>>, <<4, 4>>, <<5, 5>>, NoPos, <<6, 6>>, NoPos, NoPos >>

GomokuFiveLine ==
    << <<0, 0>>, <<0, 1>>, <<1, 0>>, <<1, 1>>, <<2, 0>>, <<2, 1>>, <<3, 0>>,
       <<3, 1>>, <<0, 5>>, <<0, 6>>, <<4, 0>> >>

GomokuOpenLine ==
    << <<0, 0>>, <<0, 1>>, <<0, 2>>, <<0, 3>>, <<1, 0>>, <<1, 1>>, <<1, 2>>,
       <<1, 3>>, <<2, 0>>, <<2, 1>>, <<2, 2>>, <<2, 3>> >>

ReplayLines(type) ==
    CASE type = GO -> {GoLine}
      [] type = GOMOKU -> {GomokuFiveLine, GomokuOpenLine}
      [] type = REVERSI -> {SkipLine, WipeoutLine, WhiteWinLine}

\* The cells clicked and whether a pass is made in the live game.
ReplayCells(g, s) ==
    ((IF Len(g.recorder.events) < MaxSteps
      THEN (IF g.type = REVERSI THEN legal_moves(g) ELSE CornerCells)
      ELSE {})
     \cup NextOnLine(ReplayLines(g.type), s)) \ {NoPos}

ReplayPass(g, s) ==
    /\ g.type = GO
    /\ Len(g.recorder.events) < MaxSteps \/ NoPos \in NextOnLine(ReplayLines(g.type), s)

\* Not in replay mode.
Live == replayer.game = NoGame

LiveClick(pos) == Live /\ Click(pos)

LivePass ==
    /\ Live
    /\ ReplayPass(game, played)
    /\ Outcome(Move(game.current, NoPos, TRUE, FALSE), do_pass(game))

\* replay_enter_from_current()
EnterReplay ==
    /\ Live
    /\ game.recorder.events # <<>>
    /\ replayer' = prepare_replayer_from_data(game.type, game.board.size, DefaultKomi,
                                               to_dict(game.recorder))
    /\ result' = "replay"
    /\ ctl' = [ctl EXCEPT !.replay_mode = TRUE]
    /\ UNCHANGED <<game, played>>

\* Replayer.seek(n)
Seek(n) ==
    /\ ~Live
    /\ replayer' = seek(replayer, n)
    /\ result' = "seek"
    /\ UNCHANGED <<game, played, ctl>>

\* The outcome r of step_next() or step_prev() becomes the state.
Stepped(r, name) ==
    /\ replayer' = r.rp
    /\ result' = IF r.ret THEN name \o "_true" ELSE name \o "_false"
    /\ UNCHANGED <<game, played, ctl>>

\* replay_next(), replay_prev()
StepNext == ~Live /\ Stepped(step_next(replayer), "next")
StepPrev == ~Live /\ Stepped(step_prev(replayer), "prev")

\* replay_stop() with no playback thread running
ResetToStart ==
    /\ ~Live
    /\ replayer' = reset_to_start(replayer)
    /\ result' = "stop"
    /\ UNCHANGED <<game, played, ctl>>

NextReplay ==
    \/ \E pos \in ReplayCells(game, played) : LiveClick(pos)
    \/ LivePass
    \/ EnterReplay
    \/ \E n \in -2 .. total(replayer) : Seek(n)
    \/ StepNext
    \/ StepPrev
    \/ ResetToStart

SpecReplay == Init /\ [][NextReplay]_vars

(***************************************************************************)
(* The controller saving and loading: clicks and passes on the game,       *)
(* the recording switch, replay_enter_from_current, and load() of a file.  *)
(* Here `game` is self.game, which in replay mode is the game of the       *)
(* replayer.                                                               *)
(***************************************************************************)
\* A dict without one of its keys.
Dropped(d, key) == [f \in DOMAIN d \ {key} |-> d[f]]

\* A save without the user names, as a version of save() that did not write
\* them leaves it.
Nameless(obj) == [obj EXCEPT !.meta = Dropped(@, "users"), !.data = Dropped(@, "meta")]

\* The files load() is given: the save of the game as it stands, as save()
\* writes it and without the names; and damaged files: unreadable, without
\* the data section, of an unknown game type, and the save of the game or of
\* a new game with a data section that lacks "current".
SaveFiles(g, c) ==
    LET own == controller_save(c, g)
        new == {controller_save(NewController(g1), g1) :
                   g1 \in {create_game(t, Size, DefaultKomi) : t \in GameTypes}}
    IN  {own, Nameless(own), Unreadable, Dropped(own, "data"),
         [own EXCEPT !.meta.type = "chess"]}
        \cup {[Nameless(o) EXCEPT !.data = Dropped(@, "current")] : o \in new \cup {own}}

\* The cells clicked while fewer than MaxSteps steps are logged and fewer than
\* MaxSteps can be undone.
SaveCells(g) ==
    IF Len(g.recorder.events) < MaxSteps /\ Len(g.history) < MaxSteps
    THEN PlayCells(g.type)
    ELSE {}

\* click_canvas(evt)
SaveClick(pos) ==
    /\ ~ctl.replay_mode
    /\ Click(pos)

\* do_pass()
SavePass ==
    /\ ~ctl.replay_mode
    /\ game.type = GO
    /\ Len(game.recorder.events) < MaxSteps /\ Len(game.history) < MaxSteps
    /\ Outcome(Move(game.current, NoPos, TRUE, FALSE), do_pass(game))

\* replay_toggle_record(on), when the box is ticked or unticked on the live
\* game
ToggleRecord(on) ==
    /\ ~ctl.replay_mode
    /\ on # game.recorder.enabled
    /\ game' = replay_toggle_record(game, on)
    /\ result' = IF on THEN "record_on" ELSE "record_off"
    /\ UNCHANGED <<played, replayer, ctl>>

\* The replayer rp becomes self.replayer and its game self.game.
Replaying(rp) ==
    /\ replayer' = rp
    /\ game' = rp.game
    /\ ctl' = [ctl EXCEPT !.replay_mode = TRUE]
    /\ played' = <<>>

\* replay_enter_from_current()
EnterFromCurrent ==
    /\ game.recorder.events # <<>>
    /\ Replaying(prepare_replayer_from_data(normalize_game_type(ctl.game_type), ctl.size,
                                            ctl.komi, to_dict(game.recorder)))
    /\ result' = "replay"

\* The outcome r of load() becomes the state.
LoadDone(r) ==
    /\ game' = r.game
    /\ replayer' = r.replayer
    /\ ctl' = r.ctl
    /\ result' = IF r.ok THEN "load_ok" ELSE "load_failed"
    /\ played' = IF r.game = game THEN played ELSE <<>>

\* load(text_path)
Load(obj) == LoadDone(controller_load(game, replayer, ctl, obj))

NextSave ==
    \/ \E pos \in SaveCells(game) : SaveClick(pos)
    \/ SavePass
    \/ \E on \in BOOLEAN : ToggleRecord(on)
    \/ EnterFromCurrent
    \/ \E obj \in SaveFiles(game, ctl) : Load(obj)

SpecSave == Init /\ [][NextSave]_vars

(***************************************************************************)
(* Playback.  The handlers of the controller run one at a time; the loop   *)
(* of the playback thread (_play_loop) runs beside them, one statement of  *)
(* step_next / seek at a time.  A handler that calls _stop_play_thread     *)
(* waits in join(timeout), which returns when the thread has ended or when *)
(* the time is up, whichever comes first.  `game` is self.game: in replay  *)
(* mode the object the replayer holds.                                     *)
(***************************************************************************)
\* The playback thread is inside seek().
InSeek(c) == c.play_thread \in {"seek", "apply"}

\* The thread moves to pc; nothing else changes.
ThreadAt(pc) ==
    /\ ctl' = [ctl EXCEPT !.play_thread = pc]
    /\ UNCHANGED <<game, result, played, replayer>>

\* The thread changes the replayer it works on, which is self.replayer; n
\* and i are the locals of seek, forgotten (-1, 0) when it returns.
ThreadSeek(rp, pc, n, i) ==
    /\ replayer' = rp
    /\ game' = IF ctl.replay_mode THEN rp.game ELSE game
    /\ ctl' = [ctl EXCEPT !.play_thread = pc, !.seek_n = n, !.seek_i = i]
    /\ UNCHANGED <<result, played>>

\* while self._play_flag and self.replayer ...
PlayTest ==
    /\ ctl.play_thread = "test"
    /\ ThreadAt(IF ctl.play_flag /\ replayer.game # NoGame THEN "call" ELSE "exit")

\* ... and self.replayer.step_next(): with no replayer left the attribute
\* lookup raises and the thread ends; at the end of the log step_next returns
\* False; else seek(index + 1) is entered.
PlayCall ==
    /\ ctl.play_thread = "call"
    /\ ctl' = [ctl EXCEPT
                 !.play_thread = IF replayer.game = NoGame THEN "none"
                                 ELSE IF replayer.index >= total(replayer) - 1 THEN "exit"
                                 ELSE "seek",
                 !.seek_n = IF replayer.game # NoGame THEN replayer.index + 1 ELSE @,
                 !.calls = IF result \in {"pause", "stop"} /\ ctl.ui = "idle" /\ @ < 2
                           THEN @ + 1 ELSE @]
    /\ UNCHANGED <<game, result, played, replayer>>

\* seek(n): the keyframe is restored and the recorder switched off.
PlayRestore ==
    /\ ctl.play_thread = "seek"
    /\ IF replayer.snapshots # <<>>
       THEN ThreadSeek([replayer EXCEPT
                          !.game = [restore(@, replayer.snapshots[KeyIdx(replayer, ctl.seek_n) + 1])
                                       EXCEPT !.recorder.enabled = FALSE]],
                       "apply", ctl.seek_n, KeyIdx(replayer, ctl.seek_n) * replayer.k)
       ELSE ThreadSeek([replayer EXCEPT !.game.recorder.enabled = FALSE],
                       "apply", ctl.seek_n, 0)

\* seek(n): self._apply_event_no_step(self.events[i])
PlayApply ==
    /\ ctl.play_thread = "apply"
    /\ ctl.seek_i <= ctl.seek_n
    /\ ThreadSeek([replayer EXCEPT
                     !.game = apply_event_no_step(@, replayer.events[ctl.seek_i + 1])],
                  "apply", ctl.seek_n, ctl.seek_i + 1)

\* seek(n): self.index = n; step_next returns True and the loop sleeps.
PlayStore ==
    /\ ctl.play_thread = "apply"
    /\ ctl.seek_i > ctl.seek_n
    /\ ThreadSeek([replayer EXCEPT !.index = ctl.seek_n], "sleep", -1, 0)

\* time.sleep(...) is over
PlayWake == ctl.play_thread = "sleep" /\ ThreadAt("test")

\* The seek on a replayer the controller has dropped comes to its end.
PlayDropped == ctl.play_thread = "dropped" /\ ThreadAt("sleep")

\* self._play_flag = False after the loop; the thread ends.
PlayExit ==
    /\ ctl.play_thread = "exit"
    /\ ctl' = [ctl EXCEPT !.play_thread = "none", !.play_flag = FALSE]
    /\ UNCHANGED <<game, result, played, replayer>>

\* The outcome r of click_canvas, do_pass, resign or undo becomes the state;
\* in replay mode self.game is the game of the replayer.
Interacted(move, r) ==
    /\ ctl.ui = "idle"
    /\ game' = r.game
    /\ replayer' = IF ctl.replay_mode THEN [replayer EXCEPT !.game = r.game] ELSE replayer
    /\ result' = r.error
    /\ played' = IF r.error = OK THEN Append(played, move)
                 ELSE IF r.error = "undo_true" THEN SubSeq(played, 1, Len(played) - 1)
                 ELSE played
    /\ UNCHANGED ctl

\* The handlers are used while fewer than PlaySteps steps are logged and
\* fewer than PlaySteps can be undone.
Within(g) == Len(g.recorder.events) < PlaySteps /\ Len(g.history) < PlaySteps

PlayClick(pos) ==
    /\ Within(game)
    /\ Interacted(ClickMove(game, pos), Gated(ctl, game, click_canvas(game, pos)))

PlayPass ==
    /\ Within(game)
    /\ game.type = GO
    /\ Interacted(Move(game.current, NoPos, TRUE, FALSE), Gated(ctl, game, do_pass(game)))

PlayResign ==
    /\ Within(game)
    /\ Interacted(Move(game.current, NoPos, FALSE, TRUE), Gated(ctl, game, resign(game)))

PlayUndo == Interacted(Move(game.current, NoPos, FALSE, FALSE), controller_undo(game, ctl))

PlayEnter == ctl.ui = "idle" /\ EnterFromCurrent

\* replay_start(), pressed in replay mode when the loop has ended or is the
\* thread the controller knows
ReplayStart ==
    /\ ctl.ui = "idle"
    /\ ctl.replay_mode /\ replayer.game # NoGame
    /\ ctl.play_thread = "none" \/ ctl.play_ref
    /\ ctl' = IF ctl.play_ref /\ ctl.play_thread # "none"
              THEN [ctl EXCEPT !.play_flag = TRUE, !.calls = 0]
              ELSE [ctl EXCEPT !.play_flag = TRUE, !.calls = 0, !.play_ref = TRUE,
                               !.play_thread = "test"]
    /\ result' = "start"
    /\ UNCHANGED <<game, played, replayer>>

\* replay_pause(), pressed in replay mode
ReplayPause ==
    /\ ctl.ui = "idle"
    /\ ctl.replay_mode
    /\ ctl' = [ctl EXCEPT !.play_flag = FALSE, !.calls = 0]
    /\ result' = "pause"
    /\ UNCHANGED <<game, played, replayer>>

\* _stop_play_thread() up to the join, in the handler ui, used in replay mode
StopPlayThread(ui) ==
    /\ ctl.ui = "idle"
    /\ ctl.replay_mode
    /\ ctl' = [ctl EXCEPT !.play_flag = FALSE, !.ui = ui]
    /\ UNCHANGED <<game, result, played, replayer>>

\* replay_stop() from the return of the join on
ReplayStop ==
    /\ ctl.ui = "stop"
    /\ replayer' = IF ctl.replay_mode /\ replayer.game # NoGame
                   THEN reset_to_start(replayer) ELSE replayer
    /\ game' = IF ctl.replay_mode THEN replayer'.game ELSE game
    /\ ctl' = [ctl EXCEPT !.play_ref = FALSE, !.ui = "idle", !.calls = 0]
    /\ result' = "stop"
    /\ UNCHANGED played

\* new_game(game_type, size, komi) from the return of the join on: the
\* replayer is dropped and the game replaced; set_users then raises, which
\* leaves the new game as create_game made it.
NewGame ==
    /\ ctl.ui = "new"
    /\ game' = create_game(normalize_game_type(ctl.game_type), ctl.size, ctl.komi)
    /\ replayer' = NewReplayer
    /\ ctl' = [ctl EXCEPT !.play_ref = FALSE, !.ui = "idle", !.replay_mode = FALSE,
                          !.play_thread = IF InSeek(ctl) THEN "dropped" ELSE @,
                          !.seek_n = -1, !.seek_i = 0, !.calls = 0]
    /\ result' = "new"
    /\ played' = <<>>

NextPlay ==
    \/ \E pos \in PlayCells(game.type) : PlayClick(pos)
    \/ PlayPass
    \/ PlayResign
    \/ PlayUndo
    \/ PlayEnter
    \/ ReplayStart
    \/ ReplayPause
    \/ \E ui \in {"stop", "new"} : StopPlayThread(ui)
    \/ ReplayStop
    \/ NewGame
    \/ PlayTest
    \/ PlayCall
    \/ PlayRestore
    \/ PlayApply
    \/ PlayStore
    \/ PlayWake
    \/ PlayDropped
    \/ PlayExit

SpecPlay == Init /\ [][NextPlay]_vars

(***************************************************************************)
(* Territory game: steps on a loaded position, and undo.                   *)
(*                                                                         *)
(* The positions are those of InitGoPos; at most TakeSteps steps succeed.  *)
(***************************************************************************)
TakeMoves(region) ==
    {Move(c, q, FALSE, FALSE) : c \in PlayerColor, q \in region}
    \cup {Move(c, NoPos, TRUE, FALSE) : c \in PlayerColor}

TakeWithin(move, r) ==
    /\ Len(game.recorder.events) < TakeSteps \/ r.error # OK
    /\ Outcome(move, r)

TakeStep(move) == TakeWithin(move, step(game, move))

TakeBack == Undone(undo(game))

NextGoTake ==
    \/ \E move \in TakeMoves(GoRegion) : TakeStep(move)
    \/ TakeBack

SpecGoTake == InitGoPos /\ [][NextGoTake]_vars

(***************************************************************************)
(* The engines stepped and replayed on loaded positions.                   *)
(*                                                                         *)
(* The positions are the territory positions of InitGoPos and the new      *)
(* flip-capture game.  A move is made through step(), or an event is       *)
(* applied to the position the way Replayer.seek applies the events of a   *)
(* log, with the side to move set to the player of the event.              *)
(***************************************************************************)
\* _apply_event_no_step(e) after is_legal returned chk: the game after it and
\* whether apply_move raised.
EventChecked(g, mv, chk) ==
    IF ~chk.legal THEN [game |-> [g EXCEPT !.board = chk.board], raised |-> FALSE]
    ELSE apply_move([g EXCEPT !.board = chk.board], mv)

EventAs(g, mv) == EventChecked(g, mv, is_legal(g, mv))

\* _apply_event_no_step(e): the game after it and whether it raised.
EventOutcome(g, e) ==
    IF e.type = "skip" THEN [game |-> [g EXCEPT !.current = Opponent(@)], raised |-> FALSE]
    ELSE IF e.type \notin {"move", "pass", "resign"} THEN [game |-> g, raised |-> FALSE]
    ELSE EventAs([g EXCEPT !.current = IF e.player = "BLACK" THEN PC_BLACK ELSE PC_WHITE],
                 EventMove([g EXCEPT !.current = IF e.player = "BLACK" THEN PC_BLACK
                                                 ELSE PC_WHITE], e))

InitApply ==
    /\ game \in LoadedGoGames(Size, GoRegion)
                 \cup {create_game(t, Size, DefaultKomi) : t \in {GO, REVERSI}}
    /\ result = "new"
    /\ played = <<>>
    /\ replayer = NewReplayer
    /\ ctl = NewController(game)

\* The cells of the placements: the region of the territory positions, the
\* legal placements of either side of the flip-capture game and a corner.
ApplyCells(g) ==
    IF g.type = GO THEN GoRegion
    ELSE legal_moves(g) \cup legal_moves([g EXCEPT !.current = Opponent(@)]) \cup {<<0, 0>>}

ApplyMoves(g) ==
    {Move(c, q, FALSE, FALSE) : c \in PlayerColor, q \in ApplyCells(g)}
    \cup {Move(c, NoPos, TRUE, FALSE) : c \in PlayerColor}
    \cup {Move(c, NoPos, FALSE, TRUE) : c \in PlayerColor}

ApplyEvents(g) ==
    {ReplayEvent("move", PlayerName(c), <<q[1]>>, <<q[2]>>, 0) :
        c \in PlayerColor, q \in ApplyCells(g)}
    \cup {ReplayEvent(t, PlayerName(c), <<>>, <<>>, 0) :
            t \in {"pass", "resign", "skip"}, c \in PlayerColor}

\* step(move); at most TakeSteps calls are let succeed.
ApplyStep(move) ==
    /\ result # "event"
    /\ TakeWithin(move, step(game, move))

\* An event is applied to the position.
Replayed(r) ==
    /\ game' = r.game
    /\ result' = IF r.raised THEN InternalError ELSE "event"
    /\ UNCHANGED <<played, replayer, ctl>>

ApplyEvent1(e) ==
    /\ result # "event"
    /\ Replayed(EventOutcome(game, e))

NextApply ==
    \/ \E move \in ApplyMoves(game) : ApplyStep(move)
    \/ \E e \in ApplyEvents(game) : ApplyEvent1(e)

SpecApply == InitApply /\ [][NextApply]_vars

(***************************************************************************)
(* Recorded games with undo, then replayed.                                *)
(*                                                                         *)
(* The games are the new games and two flip-capture games in which the     *)
(* recording was switched on after the first clicks of a line: one click   *)
(* before a turn is skipped, and one click before the game ends on a skip. *)
(* Clicks, passes and resignations by either side are made while the log   *)
(* holds fewer than PlaySteps events, and they are undone; replay_enter_   *)
(* from_current() then loads the log and the replay is taken to its last   *)
(* event.                                                                  *)
(***************************************************************************)
\* The game after clicks on the first k cells of line.
RECURSIVE AlongLine(_, _, _)
AlongLine(g, line, k) ==
    IF k = 0 THEN g ELSE click_canvas(AlongLine(g, line, k - 1), line[k]).game

RestartPoints == {<<SkipLine, 7>>, <<WipeoutLine, 8>>}

Restarted(line, k) ==
    replay_toggle_record(AlongLine(create_game(REVERSI, Size, DefaultKomi), line, k), TRUE)

InitRecord ==
    /\ game \in {create_game(t, Size, DefaultKomi) : t \in GameTypes}
                 \cup {Restarted(lk[1], lk[2]) : lk \in RestartPoints}
    /\ result = "new"
    /\ played = <<>>
    /\ replayer = NewReplayer
    /\ ctl = NewController(game)

RecordCells(g) ==
    IF Len(g.recorder.events) >= PlaySteps THEN {}
    ELSE IF g.type = REVERSI THEN legal_moves(g) \cup {<<0, 0>>}
    ELSE CornerCells

RecordMoves ==
    {Move(c, NoPos, TRUE, FALSE) : c \in PlayerColor}
    \cup {Move(c, NoPos, FALSE, TRUE) : c \in PlayerColor}

RecordClick(pos) == Live /\ Click(pos)
RecordStep(move) ==
    /\ Live
    /\ Len(game.recorder.events) < PlaySteps
    /\ Outcome(move, step(game, move))

RecordUndo == Live /\ played # <<>> /\ Undo
SeekLast == Seek(total(replayer) - 1)

NextRecord ==
    \/ \E pos \in RecordCells(game) : RecordClick(pos)
    \/ \E move \in RecordMoves : RecordStep(move)
    \/ RecordUndo
    \/ EnterReplay
    \/ SeekLast

SpecRecord == InitRecord /\ [][NextRecord]_vars

(***************************************************************************)
(* Properties                                                              *)
(***************************************************************************)
LastOf(s) == s[Len(s)]
IsPlace(move) == ~move.pass_move /\ ~move.resign
IsPass(move) == move.pass_move /\ ~move.resign
Failures == {GameOver, WrongTurn, IllegalMove}

\* The fields a player can observe: board, side to move, ended, winner, last
\* position and, in Go, the capture counters, the pass counter and komi.
SameVisible(g1, g2) ==
    /\ g1.board = g2.board
    /\ g1.current = g2.current
    /\ g1.ended = g2.ended
    /\ g1.winner = g2.winner
    /\ g1.last_pos = g2.last_pos
    /\ g1.type = GO =>
          /\ g1.captured_black = g2.captured_black
          /\ g1.captured_white = g2.captured_white
          /\ g1.consecutive_pass = g2.consecutive_pass
          /\ g1.komi = g2.komi

\* C1: in every engine, after a successful step(move) an immediate undo()
\* returns true and gives back the board, side to move, ended flag, winner,
\* last position and (Go) captured_black, captured_white, consecutive_pass and
\* komi that held before the move.
C1_StepThenUndoRestores ==
    [][result' = OK => undo(game').ok /\ SameVisible(undo(game').game, game)]_vars

\* An undo() that returned true right after a successful placement.
C1_Witness ==
    /\ result = "undo_true"
    /\ Len(game.recorder.events) = Len(played) + 1
    /\ LastOf(game.recorder.events).type = "move"

\* C2: a step(move) that fails with GameOver, WrongTurn or IllegalMove leaves
\* the whole game as it was: board, side to move, ended, winner, last position,
\* counters, the undo stack and the recorder's events and keyframes.
C2_FailedStepChangesNothing ==
    [][result' \in Failures => game' = game]_vars

\* A placement was rejected as illegal in a Go position that has a suicide point
\* for the side to move.
C2_Witness ==
    /\ result = IllegalMove
    /\ game.type = GO
    /\ \E q \in CornerCells :
          /\ is_empty(game.board, q)
          /\ ~GoIsLegal(game, Move(game.current, q, FALSE, FALSE)).legal

C4_PlacementsAlternate ==
    /\ \A q \in PlayCells(game.type) \cup OffBoard \cup {NoPos} :
          step(game, Move(Opponent(game.current), q, FALSE, FALSE)).error # OK
    /\ (played # <<>> /\ IsPlace(played[1])) => played[1].player = PC_BLACK
    /\ \A i \in 1 .. Len(played) - 1 :
          (IsPlace(played[i]) /\ IsPlace(played[i + 1]))
              => played[i + 1].player # played[i].player

\* After two accepted placements in a row, a placement by the wrong color was
\* rejected.
C4_Witness ==
    /\ result = WrongTurn
    /\ Len(played) >= 2
    /\ IsPlace(played[1]) /\ IsPlace(played[2])

\* C5: in Go, an accepted pass is a pass by the side that was to move.
C5_PassOnlyByCurrent ==
    [][(game.type = GO /\ result' = OK /\ IsPass(LastOf(played')))
          => LastOf(played').player = game.current]_vars

\* C6: in every engine, while the game has not ended, a resignation by either
\* color is accepted, ends the game and makes the opponent of the resigning
\* color the winner; the board and the side to move stay as they were.
C6_ResignEndsForOpponent ==
    ~game.ended =>
        \A c \in PlayerColor :
            LET r == step(game, Move(c, NoPos, FALSE, TRUE))
            IN  /\ r.error = OK
                /\ r.game.ended
                /\ r.game.winner = Opponent(c)
                /\ r.game.board = game.board
                /\ r.game.current = game.current

\* The side not to move resigned and the side to move has won.
C6_Witness ==
    /\ result = OK
    /\ played # <<>>
    /\ LastOf(played).resign
    /\ LastOf(played).player # game.current
    /\ game.ended
    /\ game.winner = game.current

\* The number of passes at the end of a sequence of moves.
RECURSIVE TrailingPasses(_)
TrailingPasses(s) ==
    IF s = <<>> \/ ~IsPass(LastOf(s)) THEN 0
    ELSE 1 + TrailingPasses(SubSeq(s, 1, Len(s) - 1))

\* The accepted moves not undone, resignations left out.
NotResigned == SelectSeq(played, LAMBDA m : ~m.resign)

\* C8: in Go, consecutive_pass is the number of accepted passes since the last
\* accepted placement (or since the start), it is at most 2, it is 2 exactly
\* when the game has ended with no winner set, and so is 0 after a placement.
C8_ConsecutivePassCounts ==
    game.type = GO =>
        /\ game.consecutive_pass = TrailingPasses(NotResigned)
        /\ game.consecutive_pass <= 2
        /\ game.consecutive_pass = 2 <=> (game.ended /\ game.winner = None)

\* The second pass in a row has just ended the game.
C8_Witness ==
    /\ game.type = GO
    /\ result = OK
    /\ game.consecutive_pass = 2
    /\ game.ended
    /\ game.winner = None

\* The rule of Go on a board, stated on sets of cells: adjacency, the chain of a
\* cell (the cells joined to it through cells of equal content), its liberties.
Adjacent(b, q) ==
    {n \in {<<q[1] - 1, q[2]>>, <<q[1] + 1, q[2]>>, <<q[1], q[2] - 1>>, <<q[1], q[2] + 1>>} :
        n \in DOMAIN b.grid}

RECURSIVE Grow(_, _, _, _)
Grow(b, content, chain, frontier) ==
    LET more == {n \in UNION {Adjacent(b, s) : s \in frontier} :
                    b.grid[n] = content /\ n \notin chain}
    IN  IF more = {} THEN chain ELSE Grow(b, content, chain \cup more, more)

Chain(b, q) == Grow(b, b.grid[q], {q}, {q})

Liberties(b, chain) ==
    {n \in UNION {Adjacent(b, s) : s \in chain} : b.grid[n] = EMPTY}

\* The opposing stones taken off by a stone of `piece` put on q of board b1:
\* the adjacent opposing chains left without a liberty.
Taken(b1, q, piece) ==
    UNION {Chain(b1, n) : n \in {n \in Adjacent(b1, q) :
                                    /\ b1.grid[n] \notin {EMPTY, piece}
                                    /\ Liberties(b1, Chain(b1, n)) = {}}}

Without(b, cells) ==
    [b EXCEPT !.grid = [n \in DOMAIN b.grid |-> IF n \in cells THEN EMPTY ELSE b.grid[n]]]

\* The rule: after the stone is placed and the dead opposing chains are taken
\* off, its chain has a liberty, or a stone was taken.
RuleAllows(b, q, piece) ==
    LET b1 == [b EXCEPT !.grid[q] = piece]
        taken == Taken(b1, q, piece)
    IN  \/ Liberties(Without(b1, taken), Chain(Without(b1, taken), q)) # {}
        \/ taken # {}

\* C7: in Go, a placement by the side to move on an empty cell of the board is
\* accepted exactly when, once the stone is placed and the adjacent opposing
\* groups without liberties are removed, its group has a liberty or a stone was
\* removed; otherwise it is rejected as illegal.
C7_PlacementLegalIffRule ==
    (game.type = GO /\ ~game.ended) =>
        \A q \in GoRegion :
            is_empty(game.board, q) =>
                LET e == step(game, Move(game.current, q, FALSE, FALSE)).error
                IN  IF RuleAllows(game.board, q, from_player(game.current))
                    THEN e = OK
                    ELSE e = IllegalMove

\* A placement that left its own group without a liberty until the capture it
\* made was accepted.
C7_Witness ==
    /\ game.type = GO
    /\ result = OK
    /\ played # <<>>
    /\ IsPlace(LastOf(played))
    /\ game.captured_black + game.captured_white > 0
    /\ LET before == from_array(LastOf(game.history).board)
           q == LastOf(played).pos
           b1 == [before EXCEPT !.grid[q] = from_player(LastOf(played).player)]
       IN  /\ Liberties(b1, Chain(b1, q)) = {}
           /\ game.board # b1

\* The maximal regions of empty cells of a board.
RECURSIVE Regions(_, _)
Regions(b, rest) ==
    IF rest = {} THEN {}
    ELSE LET region == Chain(b, CHOOSE q \in rest : TRUE)
         IN  {region} \cup Regions(b, rest \ region)

\* The contents of the stones that border a region.
Border(b, region) ==
    {b.grid[n] : n \in UNION {Adjacent(b, s) : s \in region}} \ {EMPTY}

\* The number of empty cells in regions bordered by stones of `piece` alone.
Territory(b, piece) ==
    Cardinality(UNION {region \in Regions(b, {q \in DOMAIN b.grid : b.grid[q] = EMPTY}) :
                          Border(b, region) = {piece}})

\* C9: in Go, score() returns nothing while the game has not ended; once it has
\* ended, Black scores the empty cells of the regions bordered by Black alone
\* plus captured_white, White those bordered by White alone plus captured_black
\* plus komi (scores in tenths of a point); after Black pass, White pass on the
\* empty board of size 9 with komi 7.5 the scores are 0 and 7.5.
C9_ScoreIsTerritoryPlusCaptures ==
    game.type = GO =>
        /\ ~game.ended => GoScore(game) = <<>>
        /\ game.ended =>
              GoScore(game) =
                  <<[BLACK |-> 10 * (Territory(game.board, P_BLACK) + game.captured_white),
                     WHITE |-> 10 * (Territory(game.board, P_WHITE) + game.captured_black)
                                 + game.komi]>>
        /\ (/\ game.board.size = 9
            /\ played = <<Move(PC_BLACK, NoPos, TRUE, FALSE), Move(PC_WHITE, NoPos, TRUE, FALSE)>>)
              => GoScore(game) = <<[BLACK |-> 0, WHITE |-> 75]>>

\* An ended game in which Black has both territory and captured stones, and
\* White has stones on the board.
C9_Witness ==
    /\ game.type = GO
    /\ game.ended
    /\ game.captured_white > 0
    /\ Territory(game.board, P_BLACK) > 0
    /\ \E q \in DOMAIN game.board.grid : game.board.grid[q] = P_WHITE

\* C10: in five-in-a-row, an accepted placement ends the game with the mover as
\* winner exactly when the placed stone lies in five consecutive cells of one
\* row, column or diagonal that all hold the mover's color.
C10_FiveEndsTheGame ==
    (game.type = GOMOKU /\ result = OK /\ played # <<>> /\ IsPlace(LastOf(played))) =>
        LET m == LastOf(played)
        IN  /\ game.last_pos = m.pos
            /\ (game.ended /\ game.winner = m.player)
                  <=> InFive(game.board, m.pos, from_player(m.player))

\* White has won by placing the middle stone of a run on a diagonal that runs
\* down and to the left.
C10_Witness ==
    /\ game.type = GOMOKU
    /\ result = OK
    /\ game.ended
    /\ game.winner = PC_WHITE
    /\ played # <<>>
    /\ IsPlace(LastOf(played))
    /\ LET q == LastOf(played).pos
       IN  /\ in_bounds(game.board, <<q[1] + 1, q[2] - 1>>)
           /\ in_bounds(game.board, <<q[1] - 1, q[2] + 1>>)
           /\ get(game.board, <<q[1] + 1, q[2] - 1>>) = P_WHITE
           /\ get(game.board, <<q[1] - 1, q[2] + 1>>) = P_WHITE
           /\ InFive(game.board, q, P_WHITE)

\* C11: in five-in-a-row, an accepted placement that makes no run of five and
\* fills the last empty cell ends the game with no winner; one that neither
\* wins nor fills the board leaves the game running and hands the turn to the
\* other side; a placement that ends the game leaves the side to move as it was.
C11_FullBoardIsADraw ==
    [][(game.type = GOMOKU /\ result' = OK /\ played' # played
            /\ IsPlace(LastOf(played'))) =>
          LET m == LastOf(played')
              five == InFive(game'.board, m.pos, from_player(m.player))
              full == \A q \in DOMAIN game'.board.grid : game'.board.grid[q] # EMPTY
          IN  /\ (~five /\ full) => (game'.ended /\ game'.winner = None)
              /\ (~five /\ ~full) =>
                    (~game'.ended /\ game'.current = Opponent(game.current))
              /\ game'.ended => game'.current = game.current]_vars

\* The last empty cell was filled without a run of five: a draw.
C11_Witness ==
    /\ game.type = GOMOKU
    /\ result = OK
    /\ game.ended
    /\ game.winner = None
    /\ \A q \in DOMAIN game.board.grid : game.board.grid[q] # EMPTY
    /\ ~InFive(game.board, game.last_pos, game.board.grid[game.last_pos])

\* Move(player, pass_move=True)
PassOf(c) == Move(c, NoPos, TRUE, FALSE)

\* C12: in five-in-a-row and in reversi a pass is never legal: step() of a
\* pass fails and changes nothing, for either color, whether or not that
\* color has a placement.  In five-in-a-row a placement by the side to move is
\* accepted exactly when the cell is on the board and empty.
C12_PassNeverLegal ==
    game.type \in {GOMOKU, REVERSI} =>
        /\ \A c \in PlayerColor :
              /\ ~is_legal(game, PassOf(c)).legal
              /\ step(game, PassOf(c)).error \in Failures
              /\ step(game, PassOf(c)).game = game
        /\ (game.type = GOMOKU /\ ~game.ended) =>
              \A p \in DOMAIN game.board.grid \cup OffBoard \cup {<<-1, 0>>} :
                  (step(game, Move(game.current, p, FALSE, FALSE)).error = OK)
                      <=> (in_bounds(game.board, p) /\ game.board.grid[p] = EMPTY)

\* A pass was just refused in a reversi game that goes on, issued by the color
\* that has no placement (its turn was skipped); and the same for a color that
\* has one.
C12_Witness ==
    /\ game.type = REVERSI
    /\ ~game.ended
    /\ result = IllegalMove
    /\ legal_moves([game EXCEPT !.current = Opponent(game.current)]) = {}
    /\ legal_moves(game) # {}
    /\ ~is_legal(game, PassOf(Opponent(game.current))).legal
    /\ step(game, PassOf(game.current)).error = IllegalMove

\* The four cells around the center of the board.
CenterCells(size) ==
    {size \div 2 - 1, size \div 2} \X {size \div 2 - 1, size \div 2}

\* C13: a reversi game just constructed or just reset has exactly four discs,
\* two Black and two White, on the four center cells, Black is to move and
\* legal_moves() has exactly 4 positions.
C13_StartPosition ==
    (game.type = REVERSI /\ result \in {"new", "reset"}) =>
        /\ {q \in DOMAIN game.board.grid : game.board.grid[q] # EMPTY}
              = CenterCells(game.board.size)
        /\ count_discs(game) = [BLACK |-> 2, WHITE |-> 2]
        /\ game.current = PC_BLACK
        /\ ~game.ended
        /\ Cardinality(legal_moves(game)) = 4

\* A reversi game was reset and stands at the start position.
C13_Witness ==
    /\ game.type = REVERSI
    /\ result = "reset"
    /\ count_discs(game) = [BLACK |-> 2, WHITE |-> 2]
    /\ Cardinality(legal_moves(game)) = 4

\* A reversi game of size 8 just constructed.
FreshReversi8 == game.type = REVERSI /\ game.board.size = 8 /\ result = "new"

\* step() of a placement by Black on the cell pos.
BlackAt(pos) == step(game, Move(PC_BLACK, pos, FALSE, FALSE))

\* C14 as stated: in a fresh reversi game of size 8, Black's placement at
\* (2,4) is accepted, flips the disc at (3,4), leaves exactly 4 Black discs and
\* makes White the side to move.
C14_OpeningAtTwoFour ==
    FreshReversi8 =>
        /\ BlackAt(<<2, 4>>).error = OK
        /\ game.board.grid[<<3, 4>>] = P_WHITE
        /\ BlackAt(<<2, 4>>).game.board.grid[<<3, 4>>] = P_BLACK
        /\ count_discs(BlackAt(<<2, 4>>).game).BLACK = 4
        /\ BlackAt(<<2, 4>>).game.current = PC_WHITE

\* C14 as amended: in a fresh reversi game of size 8, Black's placement at
\* (2,3) is accepted, flips the disc at (3,3), leaves exactly 4 Black discs and
\* makes White the side to move.
C14_OpeningAtTwoThree ==
    FreshReversi8 =>
        /\ BlackAt(<<2, 3>>).error = OK
        /\ game.board.grid[<<3, 3>>] = P_WHITE
        /\ BlackAt(<<2, 3>>).game.board.grid
              = [game.board.grid EXCEPT ![<<2, 3>>] = P_BLACK, ![<<3, 3>>] = P_BLACK]
        /\ count_discs(BlackAt(<<2, 3>>).game) = [BLACK |-> 4, WHITE |-> 1]
        /\ BlackAt(<<2, 3>>).game.current = PC_WHITE

\* Black has opened at (2,3) on the board of size 8.
C14_Witness ==
    /\ game.type = REVERSI
    /\ game.board.size = 8
    /\ result = OK
    /\ played = <<Move(PC_BLACK, <<2, 3>>, FALSE, FALSE)>>
    /\ game.board.grid[<<3, 3>>] = P_BLACK
    /\ count_discs(game).BLACK = 4
    /\ game.current = PC_WHITE

\* The cell n steps from p in direction d.
Along(p, d, n) == <<p[1] + n * d[1], p[2] + n * d[2]>>

\* The lengths n >= 1 for which the n cells after p in direction d hold discs
\* of the opponent of c and the cell after them a disc of c.
Flanks(b, p, d, c) ==
    {n \in 1 .. b.size :
        /\ \A k \in 1 .. n : /\ Along(p, d, k) \in DOMAIN b.grid
                             /\ b.grid[Along(p, d, k)] = from_player(Opponent(c))
        /\ Along(p, d, n + 1) \in DOMAIN b.grid
        /\ b.grid[Along(p, d, n + 1)] = from_player(c)}

\* The directions in which a disc of c on p flanks a run.
FlankDirs(b, p, c) == {d \in SeqToSet(DIR8) : Flanks(b, p, d, c) # {}}

\* The run of opponent discs after p in direction d ends on the edge of the
\* board or on an empty cell.
OpenRun(b, p, d, c) ==
    /\ Along(p, d, 1) \in DOMAIN b.grid
    /\ b.grid[Along(p, d, 1)] = from_player(Opponent(c))
    /\ Flanks(b, p, d, c) = {}

\* C15: in reversi, in every state and for every position p, is_legal accepts
\* a placement at p by the side to move exactly when p is in legal_moves(),
\* that is when p is an empty cell of the board and in at least one of the 8
\* directions a run of one or more opponent discs next to p is closed by a disc
\* of the mover; a run that ends on an empty cell or on the edge does not
\* count, and a placement that flanks in no direction is refused.
C15_LegalIffFlanks ==
    game.type = REVERSI =>
        /\ {p \in DOMAIN game.board.grid :
                is_legal(game, Move(game.current, p, FALSE, FALSE)).legal}
              = legal_moves(game)
        /\ \A p \in DOMAIN game.board.grid \cup OffBoard \cup {<<-1, 0>>} :
              is_legal(game, Move(game.current, p, FALSE, FALSE)).legal
                  <=> /\ p \in DOMAIN game.board.grid
                      /\ game.board.grid[p] = EMPTY
                      /\ FlankDirs(game.board, p, game.current) # {}

\* After an accepted placement the side to move has a legal cell, and an empty
\* cell that is refused although a run of opponent discs starts next to it
\* and reaches the edge of the board.
C15_Witness ==
    /\ game.type = REVERSI
    /\ result = OK
    /\ ~game.ended
    /\ legal_moves(game) # {}
    /\ \E p \in DOMAIN game.board.grid \ legal_moves(game) :
          /\ game.board.grid[p] = EMPTY
          /\ \E d \in SeqToSet(DIR8) :
                /\ OpenRun(game.board, p, d, game.current)
                /\ \E n \in 1 .. game.board.size :
                      /\ Along(p, d, n + 1) \notin DOMAIN game.board.grid
                      /\ \A k \in 1 .. n :
                            /\ Along(p, d, k) \in DOMAIN game.board.grid
                            /\ game.board.grid[Along(p, d, k)]
                                  = from_player(Opponent(game.current))
          /\ ~is_legal(game, Move(game.current, p, FALSE, FALSE)).legal

\* The discs a disc of c on p flanks: the runs of all 8 directions.
Turned(b, p, c) ==
    UNION {{Along(p, d, k) : k \in 1 .. n} :
             <<d, n>> \in {dn \in SeqToSet(DIR8) \X (1 .. b.size) :
                              dn[2] \in Flanks(b, p, dn[1], c)}}

\* The game r reached from g by a placement of c on p that flanks the discs
\* `turned`: the disc is on p, the flanked discs are turned and no other cell
\* changed, the other side is to move, and the counts have moved by f + 1 and
\* by -f for the f >= 1 discs turned.
PlacedAndTurned(g, p, c, r, turned) ==
    /\ Cardinality(turned) >= 1
    /\ {q \in DOMAIN g.board.grid : r.board.grid[q] # g.board.grid[q]}
          = {p} \cup turned
    /\ \A q \in {p} \cup turned : r.board.grid[q] = from_player(c)
    /\ \A q \in turned : g.board.grid[q] = from_player(Opponent(c))
    /\ r.current = Opponent(c)
    /\ r.last_pos = p
    /\ count_discs(r)[PlayerName(c)]
          = count_discs(g)[PlayerName(c)] + Cardinality(turned) + 1
    /\ count_discs(r)[PlayerName(Opponent(c))]
          = count_discs(g)[PlayerName(Opponent(c))] - Cardinality(turned)
    /\ count_discs(r).BLACK + count_discs(r).WHITE
          = count_discs(g).BLACK + count_discs(g).WHITE + 1

\* The outcome r of step() of a placement of c on p in the game g.
TurnsFlanked(g, p, c, r) ==
    r.error = OK => PlacedAndTurned(g, p, c, r.game, Turned(g.board, p, c))

\* C16: in reversi an accepted placement puts the mover's disc on the cell,
\* turns exactly the opponent discs of every flanked run of the 8 directions
\* and no other cell, and makes the other side the side to move; with f >= 1
\* discs turned the mover's count grows by f + 1, the opponent's shrinks by f
\* and the total grows by 1.
C16_PlacementTurnsFlanked ==
    (game.type = REVERSI /\ ~game.ended) =>
        \A p \in DOMAIN game.board.grid :
            TurnsFlanked(game, p, game.current,
                         step(game, Move(game.current, p, FALSE, FALSE)))

\* The game before the last accepted step.
Before(g) == restore(g, LastOf(g.history))

\* A placement was accepted that turned three discs or more, in two
\* directions or more.
C16_Witness ==
    /\ game.type = REVERSI
    /\ result = OK
    /\ game.history # <<>>
    /\ game.last_pos # NoPos
    /\ Cardinality(FlankDirs(Before(game).board, game.last_pos,
                              LastOf(played).player)) >= 2
    /\ Cardinality(Turned(Before(game).board, game.last_pos,
                           LastOf(played).player)) >= 3
    /\ \A q \in Turned(Before(game).board, game.last_pos, LastOf(played).player) :
          game.board.grid[q] = from_player(LastOf(played).player)

\* The color c has a placement on the board b.
CanMove(b, c) ==
    \E p \in DOMAIN b.grid : b.grid[p] = EMPTY /\ FlankDirs(b, p, c) # {}

\* The events recorded after the last move event.
RECURSIVE AfterLastMove(_)
AfterLastMove(events) ==
    IF events = <<>> \/ LastOf(events).type = "move" THEN <<>>
    ELSE Append(AfterLastMove(SubSeq(events, 1, Len(events) - 1)), LastOf(events))

\* The color with strictly more discs on the board b, None on equal counts.
Majority(b) ==
    LET nb == Cardinality({q \in DOMAIN b.grid : b.grid[q] = P_BLACK})
        nw == Cardinality({q \in DOMAIN b.grid : b.grid[q] = P_WHITE})
    IN  IF nb > nw THEN PC_BLACK ELSE IF nw > nb THEN PC_WHITE ELSE None

\* The game g right after the controller applied a placement of `mover`, with
\* the events `after` recorded since that placement.
SkippedOrEnded(g, mover, after) ==
    /\ BoardFull(g.board) => g.ended
    /\ (~BoardFull(g.board) /\ CanMove(g.board, Opponent(mover))) =>
          /\ ~g.ended
          /\ g.current = Opponent(mover)
          /\ after = <<>>
    /\ (~BoardFull(g.board) /\ ~CanMove(g.board, Opponent(mover))) =>
          /\ Len(after) = 1
          /\ after[1].type = "skip"
          /\ after[1].player = PlayerName(Opponent(mover))
          /\ CanMove(g.board, mover) => (~g.ended /\ g.current = mover)
          /\ ~CanMove(g.board, mover) => g.ended
    /\ g.ended => g.winner = Majority(g.board)

\* C17: in reversi, after every move the controller applies: the game ends
\* if the board is full; otherwise, if the side now to move has no placement,
\* its turn is skipped (one skip event is recorded and the mover is to move
\* again), and if the mover has no placement either the game ends; a game
\* that ends this way is won by the color with strictly more discs and by
\* nobody on equal counts.
C17_SkipOrEndAfterMove ==
    [][(game.type = REVERSI /\ result' = OK /\ played' # played) =>
          SkippedOrEnded(game', LastOf(played').player,
                         AfterLastMove(game'.recorder.events))]_vars

\* A turn was just skipped and the game goes on: the side that moved last is
\* to move again.
C17_Witness ==
    /\ game.type = REVERSI
    /\ result = OK
    /\ played # <<>>
    /\ ~game.ended
    /\ ~BoardFull(game.board)
    /\ LastOf(game.recorder.events).type = "skip"
    /\ ~CanMove(game.board, Opponent(LastOf(played).player))
    /\ game.current = LastOf(played).player

\* The number of steps among the first m events of a log: all but the skips.
RECURSIVE StepsAmong(_, _)
StepsAmong(events, m) ==
    IF m = 0 THEN 0
    ELSE StepsAmong(events, m - 1) + (IF events[m].type = "skip" THEN 0 ELSE 1)

\* The snapshot of the live game g after its first j steps and the skip that
\* followed the last of them, if any: what step j + 1 pushed on the history.
AfterSteps(g, j) == IF j < Len(g.history) THEN g.history[j + 1] ELSE snapshot(g)

\* The snapshot of the live game g immediately before its event m (from 0).
\* Before a skip the side without a move was to move and the game went on.
LiveBefore(g, m) ==
    IF g.recorder.events[m + 1].type = "skip"
    THEN [AfterSteps(g, StepsAmong(g.recorder.events, m)) EXCEPT
             !.current = PlayerValue(Opponent(PlayerOfValue(@))),
             !.ended = FALSE,
             !.winner = <<>>]
    ELSE AfterSteps(g, StepsAmong(g.recorder.events, m))

\* The snapshot of the live game g right after its event n; n = -1: at the start.
LiveAfter(g, n) ==
    IF n = Len(g.recorder.events) - 1 THEN snapshot(g) ELSE LiveBefore(g, n + 1)

\* Two snapshots agree on the board, the side to move, the ended flag, the
\* winner and the counters of the engine.
SameRecorded(s1, s2) ==
    /\ s1.board = s2.board
    /\ s1.current = s2.current
    /\ s1.ended = s2.ended
    /\ s1.winner = s2.winner
    /\ "consecutive_pass" \in DOMAIN s1 =>
          /\ s1.captured_black = s2.captured_black
          /\ s1.captured_white = s2.captured_white
          /\ s1.consecutive_pass = s2.consecutive_pass

\* C18: for a log recorded from the start of a game by steps and forced
\* skips, after Replayer.load every seek(n) with n in -1 .. total - 1 leaves the
\* replay game with the board, side to move, ended flag, winner and counters
\* the live game had right after its event n, and at n = -1 with the fresh
\* initial state.
C18_SeekReproducesLiveGame ==
    ~Live =>
        /\ SameRecorded(snapshot(replayer.game), LiveAfter(game, replayer.index))
        /\ replayer.index = -1 =>
              SameRecorded(snapshot(replayer.game),
                           snapshot(create_game(game.type, game.board.size, DefaultKomi)))

\* C19: once a game has recorded an event, keyframe 0 exists and is the
\* fresh initial state, and every keyframe i is the state reached by the
\* events 0 .. i*k - 1: the state immediately before event i*k, not after it.
C19_KeyframesPrecedeEvents ==
    (Live /\ game.recorder.events # <<>>) =>
        /\ game.recorder.snapshots # <<>>
        /\ game.recorder.snapshots[1]
              = snapshot(create_game(game.type, game.board.size, DefaultKomi))
        /\ \A i \in 0 .. Len(game.recorder.snapshots) - 1 :
              /\ i * game.recorder.k < Len(game.recorder.events)
              /\ game.recorder.snapshots[i + 1] = LiveBefore(game, i * game.recorder.k)

\* The replayer right after replay_enter_from_current() on the live game g.
Loaded(g) ==
    prepare_replayer_from_data(g.type, g.board.size, DefaultKomi, to_dict(g.recorder))

Clamp(rp, n) ==
    IF n < -1 THEN -1 ELSE IF n > total(rp) - 1 THEN total(rp) - 1 ELSE n

\* C21: the cursor of the Replayer is always in -1 .. total - 1; seek(n) puts
\* it on n clamped into that range; step_next returns false and changes
\* nothing at total - 1 and otherwise moves the cursor forward by exactly 1
\* and returns true; step_prev returns false and changes nothing at -1 and
\* otherwise moves the cursor back by exactly 1 and returns true.
C21_CursorInRange ==
    /\ -1 <= replayer.index
    /\ replayer.index <= total(replayer) - 1
    /\ \A n \in -3 .. total(replayer) + 2 :
          seek(replayer, n).index = Clamp(replayer, n)
    /\ IF replayer.index = total(replayer) - 1
       THEN step_next(replayer) = [rp |-> replayer, ret |-> FALSE]
       ELSE /\ step_next(replayer).ret
            /\ step_next(replayer).rp.index = replayer.index + 1
    /\ IF replayer.index = -1
       THEN step_prev(replayer) = [rp |-> replayer, ret |-> FALSE]
       ELSE /\ step_prev(replayer).ret
            /\ step_prev(replayer).rp.index = replayer.index - 1

\* step_next was just refused at the end of a log with two keyframes.
C21_Witness ==
    /\ ~Live
    /\ result = "next_false"
    /\ replayer.index = total(replayer) - 1
    /\ Len(replayer.snapshots) = 2
    /\ step_prev(replayer).ret

\* C22: after Replayer.load and after any sequence of seek, step_next,
\* step_prev and reset_to_start the recorder of the replay game is disabled
\* and its lists of events and keyframes are empty: replay records nothing.
C22_ReplayNeverRecords ==
    ~Live =>
        /\ ~replayer.game.recorder.enabled
        /\ replayer.game.recorder.events = <<>>
        /\ replayer.game.recorder.snapshots = <<>>
        /\ \A n \in -1 .. total(replayer) - 1 :
              /\ ~seek(replayer, n).game.recorder.enabled
              /\ seek(replayer, n).game.recorder.events = <<>>
        /\ ~reset_to_start(replayer).game.recorder.enabled

\* The cursor was stepped back inside a log with two keyframes whose events
\* were applied to the replay game; its recorder is empty.
C22_Witness ==
    /\ ~Live
    /\ result = "prev_true"
    /\ replayer.index > replayer.k
    /\ replayer.game.board # NewBoard(replayer.game.board.size)
    /\ replayer.game.recorder.events = <<>>
    /\ game.recorder.events # <<>>

\* The color named by an event.
EventPlayer(e) == IF e.player = "BLACK" THEN PC_BLACK ELSE PC_WHITE

\* The legality predicate of the engine rejects the event e on the game g.
Rejected(g, e) ==
    /\ e.type # "skip"
    /\ ~is_legal([g EXCEPT !.current = EventPlayer(e)],
                 Move(EventPlayer(e),
                      IF e.type = "move" THEN <<e.row[1], e.col[1]>> ELSE NoPos,
                      e.type = "pass", e.type = "resign")).legal

\* The games g1 and g2 have the same board, ended flag, winner and counters.
Untouched(g1, g2) ==
    /\ g1.board = g2.board
    /\ g1.ended = g2.ended
    /\ g1.winner = g2.winner
    /\ g1.recorder = g2.recorder
    /\ g1.type = GO =>
          /\ g1.captured_black = g2.captured_black
          /\ g1.captured_white = g2.captured_white
          /\ g1.consecutive_pass = g2.consecutive_pass

\* C23: during seek an event the legality predicate of the engine rejects
\* (a placement on an occupied cell, for one) raises nothing and does not
\* stop the seek: the events after it up to n are applied and the cursor
\* ends at n; the rejected event changes neither the board nor ended, winner
\* or the counters of the engine.
C23_RejectedEventIsDropped ==
    ~Live =>
        /\ \A i \in 1 .. total(replayer) :
              Rejected(replayer.game, replayer.events[i]) =>
                  Untouched(apply_event_no_step(replayer.game, replayer.events[i]),
                            replayer.game)
        /\ \A n \in 0 .. total(replayer) - 1 :
              /\ seek(replayer, n).index = n
              /\ to_array(seek(replayer, n).game.board) = LiveAfter(game, n).board

\* The cursor was moved past a keyframe whose event, a placement, is rejected
\* on the keyframe it is applied to; the events after it were applied.
C23_Witness ==
    /\ ~Live
    /\ result = "seek"
    /\ replayer.index > KeyIdx(replayer, replayer.index) * replayer.k
    /\ replayer.events[KeyIdx(replayer, replayer.index) * replayer.k + 1].type = "move"
    /\ Rejected(restore(replayer.game,
                         replayer.snapshots[KeyIdx(replayer, replayer.index) + 1]),
                 replayer.events[KeyIdx(replayer, replayer.index) * replayer.k + 1])
    /\ to_array(replayer.game.board)
          # replayer.snapshots[KeyIdx(replayer, replayer.index) + 1].board
    /\ to_array(replayer.game.board) = snapshot(game).board

(***************************************************************************)
(* C24: serialize() followed by deserialize() into a new game              *)
(***************************************************************************)
\* serialize() of g read back by a new game of the same type and size.
ReadBack(g) == deserialize(create_game(g.type, g.board.size, DefaultKomi), serialize(g))

SameLog(r1, r2) ==
    /\ r1.enabled = r2.enabled
    /\ r1.k = r2.k
    /\ r1.events = r2.events
    /\ r1.snapshots = r2.snapshots

\* C24, as stated: for every engine and every reachable state, the game that
\* reads serialize() back has the snapshot of the original and a recorder with
\* the same enabled flag, k, events and keyframes.
C24_ReadBackKeepsRecorder ==
    LET back == ReadBack(game)
    IN  /\ snapshot(back) = snapshot(game)
        /\ SameLog(back.recorder, game.recorder)

\* What the game that read back holds, given the original.
ReadBackOf(g, back) ==
    /\ snapshot(back) = snapshot(g)
    /\ g.recorder.enabled => SameLog(back.recorder, g.recorder)
    /\ ~g.recorder.enabled => back.recorder = NewRecorder(KeyframeEvery)

\* C24, amended: the game that reads serialize() back has the snapshot of the
\* original; its recorder has the same enabled flag, k, events and keyframes
\* when the original was recording, and is a new recorder (enabled, nothing
\* logged) when the original was not.
C24_ReadBackKeepsRecorderWhileRecording == ReadBackOf(game, ReadBack(game))

\* A territory game with a capture, recording, three events logged.
C24_Witness ==
    /\ game.type = GO
    /\ game.recorder.enabled
    /\ Len(game.recorder.events) = MaxSteps
    /\ game.captured_black + game.captured_white > 0
    /\ ReadBack(game).recorder.events = game.recorder.events

(***************************************************************************)
(* C25: a load() that fails                                                *)
(***************************************************************************)
\* C25: when load() fails, the controller keeps the game it had: the game
\* object and its state, the game type, the size, the komi and the replay mode
\* are what they were before.
C25_FailedLoadKeepsGame ==
    [][result' = "load_failed" =>
          /\ game' = game
          /\ replayer' = replayer
          /\ ctl'.game_type = ctl.game_type
          /\ ctl'.size = ctl.size
          /\ ctl'.komi = ctl.komi
          /\ ctl'.replay_mode = ctl.replay_mode]_vars

(***************************************************************************)
(* C26: the interactive handlers and the playback thread                   *)
(***************************************************************************)
\* What click_canvas, do_pass, resign and undo answer.
InteractiveResults ==
    {OK, GameOver, WrongTurn, IllegalMove, InternalError, Ended, NotGo, Blocked,
     "undo_true", "undo_false"}

\* C26: in replay mode click_canvas, do_pass, resign and undo answer that the
\* controller is replaying and touch neither the game nor the replayer, so
\* none of them calls step() or undo(); and whenever one of them does get to
\* the game, the playback thread is not inside a seek on that game.
C26_ReplayBlocksInteraction ==
    [][(result' \in InteractiveResults /\ ctl' = ctl) =>
          /\ ctl.replay_mode =>
                (result' = Blocked /\ game' = game /\ replayer' = replayer)
          /\ result' # Blocked => ~InSeek(ctl)]_vars

\* A handler was turned away while the playback thread was applying the
\* events of a seek.
C26_Witness ==
    /\ result = Blocked
    /\ ctl.replay_mode
    /\ ctl.play_thread = "apply"
    /\ ctl.seek_i <= ctl.seek_n
    /\ game = replayer.game

(***************************************************************************)
(* C27: replay_pause and replay_stop                                       *)
(***************************************************************************)
\* The state seek() puts together for the cursor of rp.
Reconstructed(rp) == seek([rp EXCEPT !.index = -2], rp.index).game

\* C27: once replay_pause or replay_stop has returned, the playback loop calls
\* step_next at most once more before it ends, and from then on the replay
\* game is the state reconstructed for the cursor; after replay_stop the
\* cursor is -1 and the game holds the state of keyframe 0.
C27_PlaybackComesToRest ==
    /\ (ctl.ui = "idle" /\ result \in {"pause", "stop"}) => ctl.calls <= 1
    /\ (ctl.ui = "idle" /\ result \in {"pause", "stop"} /\ ctl.play_thread = "none")
          => replayer.game = Reconstructed(replayer)
    /\ (ctl.ui = "idle" /\ result = "stop")
          => /\ replayer.index = -1
             /\ replayer.game = reset_to_start(replayer).game

(***************************************************************************)
(* C28: the undo stack                                                     *)
(***************************************************************************)
\* The game after the first j of the moves, each made with step().
RECURSIVE StepsMade(_, _, _)
StepsMade(g, moves, j) ==
    IF j = 0 THEN g ELSE step(StepsMade(g, moves, j - 1), moves[j]).game

\* n calls of undo(): the game after them and whether each returned True.
RECURSIVE Undos(_, _)
Undos(g, n) ==
    IF n = 0 THEN [game |-> g, ok |-> TRUE]
    ELSE LET u == undo(g)
             rest == Undos(u.game, n - 1)
         IN  [game |-> rest.game, ok |-> u.ok /\ rest.ok]

\* The stack of g against the moves made since the game fresh was new, and
\* what Undos gave for it.
StackOf(g, fresh, moves, undone) ==
    /\ Len(g.history) = Len(moves)
    /\ \A i \in 1 .. Len(g.history) :
          g.history[i] = snapshot(StepsMade(fresh, moves, i - 1))
    /\ undone.ok
    /\ undone.game.history = <<>>
    /\ snapshot(undone.game) = snapshot(fresh)
    /\ undo(undone.game) = [game |-> undone.game, ok |-> FALSE]

\* C28: the undo stack holds one snapshot for each successful step not yet
\* undone, each taken before its move changed the game; after n successful
\* steps on a new game n calls of undo() each return True and the last one
\* restores the state of the new game; undo() on an empty stack returns False
\* and changes nothing.
C28_UndoStackMatchesSteps ==
    StackOf(game, create_game(game.type, game.board.size, DefaultKomi), played,
            Undos(game, Len(game.history)))

\* Three steps were made and the last of them has been undone.
C28_Witness ==
    /\ result = "undo_true"
    /\ Len(game.recorder.events) = MaxSteps
    /\ Len(game.history) = MaxSteps - 1
    /\ game.history[2] # game.history[1]

(***************************************************************************)
(* C29: is_legal of the territory game simulates on the board itself       *)
(***************************************************************************)
\* The cells of the corner the stones lie in with the cells around them, and
\* the opposite corner.
NearCells(size) ==
    {q \in Cells(size) : q[1] <= 3 /\ q[2] <= 3} \cup {<<size - 1, size - 1>>}

\* The calls the territory game is asked about: a placement by either colour
\* on one of these cells, off the board or without a position, a pass, a
\* resignation.
AllMoves(g) ==
    {Move(c, p, FALSE, FALSE) : c \in PlayerColor,
                                p \in NearCells(g.board.size) \cup OffBoard \cup {NoPos}}
    \cup {Move(c, NoPos, TRUE, FALSE) : c \in PlayerColor}
    \cup {Move(c, NoPos, FALSE, TRUE) : c \in PlayerColor}

\* C29: is_legal of the territory game leaves the board exactly as it found
\* it, for every move and every reachable board, whatever it answers; also when
\* the simulated placement captures one group that touches the placed stone
\* through two neighbours, or several groups at once.
C29_IsLegalLeavesBoard ==
    game.type = GO => \A m \in AllMoves(game) : is_legal(game, m).board = game.board

\* The groups without a liberty that is_legal lists when c is placed on p.
Listed(g, c, p) ==
    ToClear(set(g.board, p, from_player(c)),
            AdjOpp(set(g.board, p, from_player(c)), p, OppPiece(from_player(c))))

\* The game as it was before the last accepted step.
Previous(g) == restore(g, g.history[Len(g.history)])

\* step() accepted a placement for which is_legal listed the same group
\* twice, as that group touched the placed stone through two neighbours, and
\* the group is off the board.
C29_Witness ==
    /\ game.type = GO
    /\ result = OK
    /\ game.history # <<>>
    /\ game.last_pos # NoPos
    /\ LET listed == Listed(Previous(game), Opponent(game.current), game.last_pos)
       IN  /\ \E i, j \in 1 .. Len(listed) :
                 i # j /\ listed[i] # {} /\ listed[i] = listed[j]
           /\ \A q \in UNION SeqToSet(listed) : is_empty(game.board, q)

\* The stones of colour c on board b, the counter of the stones of colour c
\* taken off, and the placements of colour c among moves.
StonesOf(b, c) == Cardinality({q \in DOMAIN b.grid : b.grid[q] = from_player(c)})
CapturedOf(g, c) == IF c = PC_BLACK THEN g.captured_black ELSE g.captured_white
PlacedBy(moves, c) ==
    Cardinality({i \in DOMAIN moves : IsPlace(moves[i]) /\ moves[i].player = c})

\* The game as it was before the steps that are not undone.
StartOf(g) == IF g.history = <<>> THEN g ELSE restore(g, g.history[1])

\* The board and the counters after the accepted placement `move` on game
\* `pre` are those of `g`: exactly the adjacent opposing chains without a
\* liberty are gone, and their stones are added once to the counter of their
\* colour, the other counter staying.
TakesExactly(pre, move, g) ==
    LET b1 == [pre.board EXCEPT !.grid[move.pos] = from_player(move.player)]
        dead == Taken(b1, move.pos, from_player(move.player))
    IN  /\ g.board = Without(b1, dead)
        /\ CapturedOf(g, Opponent(move.player))
              = CapturedOf(pre, Opponent(move.player)) + Cardinality(dead)
        /\ CapturedOf(g, move.player) = CapturedOf(pre, move.player)

\* C30: in Go, an accepted placement removes exactly the stones of the adjacent
\* opposing groups left without a liberty, counts each removed stone once and
\* adds the count to the captured counter of the removed colour; and over steps
\* and undos, for each colour, the stones on the board plus its captured
\* counter grow from the loaded position (an empty board and zero counters in
\* a new game) by the number of that colour's accepted placements not undone.
C30_CapturesCounted ==
    game.type = GO =>
        /\ \A c \in PlayerColor :
              StonesOf(game.board, c) + CapturedOf(game, c)
                = StonesOf(StartOf(game).board, c) + CapturedOf(StartOf(game), c)
                  + PlacedBy(played, c)
        /\ (result = OK /\ played # <<>> /\ IsPlace(LastOf(played))) =>
              TakesExactly(Previous(game), LastOf(played), game)

\* A placement took off a group of several stones that it touches through two
\* of its stones.
C30_Witness ==
    /\ game.type = GO
    /\ result = OK
    /\ played # <<>>
    /\ IsPlace(LastOf(played))
    /\ LET pre == Previous(game)
           q == LastOf(played).pos
           dead == {n \in DOMAIN game.board.grid :
                       pre.board.grid[n] # EMPTY /\ game.board.grid[n] = EMPTY}
       IN  /\ Cardinality(dead) >= 3
           /\ Cardinality(Adjacent(pre.board, q) \cap dead) >= 2
           /\ CapturedOf(game, Opponent(LastOf(played).player)) = Cardinality(dead)

\* apply_move does not raise on a move is_legal accepted.
NoRaise(g, mv, chk) ==
    chk.legal => ~apply_move([g EXCEPT !.board = chk.board], mv).raised

NoRaiseAs(g, mv) == NoRaise(g, mv, is_legal(g, mv))

\* C31: apply_move never raises on a move that is_legal accepts: no step and
\* no replayed event ends in the internal error, and in every state reached,
\* every move of either side that is_legal accepts with that side to move (the
\* call step() makes for a placement, and the call the replay makes for every
\* event) is applied without the zero-liberty check of the territory game or
\* the no-flips check of the flip-capture game being triggered.
C31_AcceptedMoveApplies ==
    /\ result # InternalError
    /\ \A mv \in ApplyMoves(game) : NoRaiseAs([game EXCEPT !.current = mv.player], mv)

\* A stone was placed whose group had no liberty until the capture it made:
\* the check at the end of apply_move ran on a group freed by the capture.
C31_Witness ==
    /\ game.type = GO
    /\ result = OK
    /\ played # <<>>
    /\ IsPlace(LastOf(played))
    /\ LET pre == Previous(game)
           q == LastOf(played).pos
           b1 == [pre.board EXCEPT !.grid[q] = from_player(LastOf(played).player)]
       IN  /\ Liberties(b1, Chain(b1, q)) = {}
           /\ Liberties(game.board, Chain(game.board, q))
                = {n \in DOMAIN b1.grid : b1.grid[n] # EMPTY /\ game.board.grid[n] = EMPTY}

\* The events of log `after` that follow those of log `before`.
NewEvents(before, after) == SubSeq(after, Len(before) + 1, Len(after))

\* The event e records the move mv.
EventOf(e, mv) ==
    /\ e.type = IF mv.resign THEN "resign" ELSE IF mv.pass_move THEN "pass" ELSE "move"
    /\ e.player = PlayerName(mv.player)
    /\ e.row = IF IsPlace(mv) /\ mv.pos # NoPos THEN <<mv.pos[1]>> ELSE <<>>
    /\ e.col = IF IsPlace(mv) /\ mv.pos # NoPos THEN <<mv.pos[2]>> ELSE <<>>

\* The forced skips of a handler: the one a click starts with, on a game g
\* whose side to move has no placement, and the one that follows a placement
\* of `mover` that left game g to an opponent without a placement.
SkipBefore(g) ==
    IF g.type = REVERSI /\ ~g.ended /\ ~CanMove(g.board, g.current) THEN 1 ELSE 0
SkipAfter(g, mv) ==
    IF g.type = REVERSI /\ IsPlace(mv) /\ ~BoardFull(g.board)
       /\ ~CanMove(g.board, Opponent(mv.player))
    THEN 1 ELSE 0

\* The log grew by the event of the step mv and by one skip event for each
\* forced skip around it.
GrewByStep(g, g2, mv, new) ==
    /\ Len(new) = SkipBefore(g) + 1 + SkipAfter(g2, mv)
    /\ \A i \in 1 .. Len(new) :
          IF i = SkipBefore(g) + 1 THEN EventOf(new[i], mv) ELSE new[i].type = "skip"

\* C32: with recording enabled, each successful step appends exactly one event
\* (move, pass or resign as the move is, with the color and the position of the
\* move) and each forced skip one skip event; a failed step and undo() leave
\* the events as they are, so the events of steps undone later stay counted.
C32_EventPerStepAndSkip ==
    [][game.recorder.enabled =>
          /\ (result' = OK /\ played' # played) =>
                GrewByStep(game, game', LastOf(played'),
                           NewEvents(game.recorder.events, game'.recorder.events))
          /\ (result' \in Failures \cup {Ended, InternalError} /\ SkipBefore(game) = 0) =>
                game'.recorder.events = game.recorder.events
          /\ result' \in {"undo_true", "undo_false"} =>
                game'.recorder.events = game.recorder.events]_vars

\* A placement and the forced skip that followed it were undone: the log
\* still holds both events.
C32_Witness ==
    /\ result = "undo_true"
    /\ played = <<>>
    /\ Len(game.recorder.events) = 2
    /\ game.recorder.events[1].type = "move"
    /\ game.recorder.events[2].type = "skip"

\* C33: after steps and undos on a recorded game, the replay loaded from its
\* log and taken to the last event shows the board of the live game.
C33_ReplayEndsOnLiveBoard ==
    (~Live /\ replayer.index = total(replayer) - 1) =>
        replayer.game.board = game.board

(***************************************************************************)
(* Playback with the thread a timed-out join left behind.  The controller  *)
(* is in replay mode over the log of a short recorded game.  Two threads   *)
(* can run _play_loop: "play", the last one replay_start made, and "old",  *)
(* one that _stop_play_thread() gave up waiting for (old_thread, old_n and *)
(* old_i are its position and the locals of its seek).                     *)
(***************************************************************************)
Threads == {"play", "old"}

pcOf(c, T) == IF T = "play" THEN c.play_thread ELSE c.old_thread

nOf(c, T) == IF T = "play" THEN c.seek_n ELSE c.old_n

iOf(c, T) == IF T = "play" THEN c.seek_i ELSE c.old_i

Moved(c, T, pc, n, i) ==
    IF T = "play"
    THEN [c EXCEPT !.play_thread = pc, !.seek_n = n, !.seek_i = i]
    ELSE [c EXCEPT !.old_thread = pc, !.old_n = n, !.old_i = i]

\* The thread T is inside seek, called by step_next.
InStepNext(c, T) == pcOf(c, T) \in {"seek", "apply"}

\* Thread T moves to pc; nothing else changes.
LoopAt(T, pc) ==
    /\ ctl' = Moved(ctl, T, pc, nOf(ctl, T), iOf(ctl, T))
    /\ UNCHANGED <<game, result, played, replayer>>

\* Thread T changes self.replayer, whose game is self.game in replay mode.
LoopSeek(T, rp, pc, n, i) ==
    /\ replayer' = rp
    /\ game' = rp.game
    /\ ctl' = Moved(ctl, T, pc, n, i)
    /\ UNCHANGED <<result, played>>

\* while self._play_flag and self.replayer ...
LoopTest(T) ==
    /\ pcOf(ctl, T) = "test"
    /\ LoopAt(T, IF ctl.play_flag /\ replayer.game # NoGame THEN "call" ELSE "exit")

\* ... and self.replayer.step_next(): False at the end of the log, else
\* seek(index + 1) is entered.
LoopCall(T) ==
    /\ pcOf(ctl, T) = "call"
    /\ IF replayer.index >= total(replayer) - 1
       THEN LoopAt(T, "exit")
       ELSE /\ ctl' = Moved(ctl, T, "seek", replayer.index + 1, 0)
            /\ UNCHANGED <<game, result, played, replayer>>

\* seek(n): nothing to do when the cursor is at n already; else the keyframe
\* is restored and the recorder switched off.
LoopRestore(T) ==
    /\ pcOf(ctl, T) = "seek"
    /\ IF nOf(ctl, T) = replayer.index
       THEN LoopSeek(T, replayer, "sleep", -1, 0)
       ELSE IF replayer.snapshots # <<>>
       THEN LoopSeek(T, [replayer EXCEPT
                           !.game = [restore(@, replayer.snapshots[KeyIdx(replayer, nOf(ctl, T)) + 1])
                                        EXCEPT !.recorder.enabled = FALSE]],
                     "apply", nOf(ctl, T), KeyIdx(replayer, nOf(ctl, T)) * replayer.k)
       ELSE LoopSeek(T, [replayer EXCEPT !.game.recorder.enabled = FALSE],
                     "apply", nOf(ctl, T), 0)

\* seek(n): self._apply_event_no_step(self.events[i])
LoopApply(T) ==
    /\ pcOf(ctl, T) = "apply"
    /\ iOf(ctl, T) <= nOf(ctl, T)
    /\ LoopSeek(T, [replayer EXCEPT
                      !.game = apply_event_no_step(@, replayer.events[iOf(ctl, T) + 1])],
                "apply", nOf(ctl, T), iOf(ctl, T) + 1)

\* seek(n): self.index = n; step_next returns True and the loop sleeps.
LoopStore(T) ==
    /\ pcOf(ctl, T) = "apply"
    /\ iOf(ctl, T) > nOf(ctl, T)
    /\ LoopSeek(T, [replayer EXCEPT !.index = nOf(ctl, T)], "sleep", -1, 0)

\* time.sleep(...) is over
LoopWake(T) == pcOf(ctl, T) = "sleep" /\ LoopAt(T, "test")

\* self._play_flag = False after the loop; the thread ends.
LoopExit(T) ==
    /\ pcOf(ctl, T) = "exit"
    /\ ctl' = [Moved(ctl, T, "none", -1, 0) EXCEPT !.play_flag = FALSE]
    /\ UNCHANGED <<game, result, played, replayer>>

\* One statement of thread T.
LoopRun(T) ==
    \/ LoopTest(T)
    \/ LoopCall(T)
    \/ LoopRestore(T)
    \/ LoopApply(T)
    \/ LoopStore(T)
    \/ LoopWake(T)
    \/ LoopExit(T)

\* replay_start(): with a live thread in self._play_thread only the flag is
\* set; else a thread is made, next to the one a stop left running, if any.
LoopStart ==
    /\ ctl.ui = "idle"
    /\ ctl.replay_mode /\ replayer.game # NoGame
    /\ ctl.play_ref \/ ctl.play_thread = "none" \/ ctl.old_thread = "none"
    /\ ctl' = IF ctl.play_ref /\ ctl.play_thread # "none"
              THEN [ctl EXCEPT !.play_flag = TRUE]
              ELSE IF ctl.play_thread = "none"
              THEN [ctl EXCEPT !.play_flag = TRUE, !.play_ref = TRUE, !.play_thread = "test"]
              ELSE [ctl EXCEPT !.play_flag = TRUE, !.play_ref = TRUE, !.play_thread = "test",
                               !.seek_n = -1, !.seek_i = 0,
                               !.old_thread = ctl.play_thread,
                               !.old_n = ctl.seek_n, !.old_i = ctl.seek_i]
    /\ result' = "start"
    /\ UNCHANGED <<game, played, replayer>>

\* The outcome r of step_next or step_prev, called by a handler.
LoopStepped(r, name) ==
    /\ ctl.ui = "idle"
    /\ ctl.replay_mode /\ replayer.game # NoGame
    /\ replayer' = r.rp
    /\ game' = r.rp.game
    /\ result' = IF r.ret THEN name ELSE "at_end"
    /\ UNCHANGED <<played, ctl>>

\* replay_next()
ReplayNext == LoopStepped(step_next(replayer), "next")

\* replay_prev()
ReplayPrev == LoopStepped(step_prev(replayer), "prev")

\* The games whose log is played back.
LoopLines == {<<GO, GoLine>>, <<GOMOKU, GomokuOpenLine>>, <<REVERSI, SkipLine>>}

\* The replayer after replay_enter_from_current() on the game g.
Entered(g) ==
    prepare_replayer_from_data(g.type, g.board.size, DefaultKomi, to_dict(g.recorder))

InitLoop ==
    /\ \E tl \in LoopLines :
          /\ replayer = Entered(AlongLine(create_game(tl[1], Size, DefaultKomi), tl[2], PlaySteps))
          /\ ctl = [NewController(replayer.game) EXCEPT !.replay_mode = TRUE]
    /\ game = replayer.game
    /\ result = "replay"
    /\ played = <<>>

NextLoop ==
    \/ LoopStart
    \/ ReplayPause
    \/ StopPlayThread("stop")
    \/ ReplayStop
    \/ ReplayNext
    \/ ReplayPrev
    \/ \E T \in Threads : LoopTest(T)
    \/ \E T \in Threads : LoopCall(T)
    \/ \E T \in Threads : LoopRestore(T)
    \/ \E T \in Threads : LoopApply(T)
    \/ \E T \in Threads : LoopStore(T)
    \/ \E T \in Threads : LoopWake(T)
    \/ \E T \in Threads : LoopExit(T)

SpecLoop == InitLoop /\ [][NextLoop]_vars

\* The threads are scheduled fairly and a handler that has begun returns.
SpecLoopFair ==
    /\ SpecLoop
    /\ \A T \in Threads : WF_vars(LoopRun(T))
    /\ WF_vars(ReplayStop)

\* No thread runs _play_loop.
NoLoop(c) == \A T \in Threads : pcOf(c, T) = "none"

\* The playback has come to its end: the cursor is on the last event, the
\* loop has terminated and the play flag is cleared.
PlayedOut == replayer.index = total(replayer) - 1 /\ NoLoop(ctl) /\ ~ctl.play_flag

\* C34: once playback is started and no other control is used after it, the
\* loop eventually brings the cursor to total - 1 and terminates with the play
\* flag cleared, the threads being scheduled fairly; the cursor never passes
\* the last event.
C34_PlaybackReachesEnd ==
    /\ [](replayer.index <= total(replayer) - 1)
    /\ (result = "start") ~> (result # "start" \/ PlayedOut)

\* A handler runs a seek or a reset on the replayer: replay_next or
\* replay_prev that moves the cursor, or the second half of replay_stop.
ManualSeek ==
    \/ ReplayNext /\ result' = "next"
    \/ ReplayPrev /\ result' = "prev"
    \/ ReplayStop

\* No playback thread is inside step_next.
NoSeekInProgress == \A T \in Threads : ~InStepNext(ctl, T)

\* C35: replay_next, replay_prev and the reset of replay_stop never run a seek
\* or a reset on the replayer while the playback loop is inside step_next on
\* it, and whenever no seek is in progress the replay game is the state
\* reconstructed for the cursor.
C35_ManualControlsExcluded ==
    /\ [][ManualSeek => NoSeekInProgress]_vars
    /\ [](NoSeekInProgress => replayer.game = Reconstructed(replayer))

\* Thread T is calling step_next: at the call or inside the seek it makes.
CallingStepNext(c, T) == pcOf(c, T) = "call" \/ InStepNext(c, T)

\* C36: at most one playback loop runs: whatever replay_start, replay_pause
\* and replay_stop are pressed, a replay_start right after a stop whose join
\* timed out included, no two live playback threads are both calling
\* step_next.
C36_OnePlaybackLoop == ~(\A T \in Threads : CallingStepNext(ctl, T))

\* Every chain of stones on board b has an empty point next to it.
GroupsAlive(b) ==
    \A q \in DOMAIN b.grid : b.grid[q] # EMPTY => Liberties(b, Chain(b, q)) # {}

\* C37: in Go, in every state reached by steps and undos, every group on the
\* board has at least one liberty.
C37_EveryGroupHasLiberty == game.type = GO => GroupsAlive(game.board)

\* An accepted placement whose stone had no liberty until the stones it took
\* came off the board.
C37_Witness ==
    /\ game.type = GO
    /\ result = OK
    /\ played # <<>>
    /\ IsPlace(LastOf(played))
    /\ LET q == LastOf(played).pos
           piece == from_player(LastOf(played).player)
           b1 == [Previous(game).board EXCEPT !.grid[q] = piece]
       IN  /\ Taken(b1, q, piece) # {}
           /\ Liberties(b1, Chain(b1, q)) = {}
    /\ GroupsAlive(game.board)

(***************************************************************************)
(* controller.py: what is announced at the end of a game.  The texts are   *)
(* kept as the colour they name, "DRAW" for a draw.                        *)
(***************************************************************************)
\* self.game_type.lower() in ("go", "weiqi", <the two characters of the Chinese
\* name>) and isinstance(self.game, GoGame)
ScoredAsGo(c, g) == c.game_type \in {GO, "weiqi"} /\ g.type = GO

\* The comparison of score["BLACK"] and score["WHITE"]
ByScore(score) ==
    IF score.BLACK > score.WHITE THEN "BLACK"
    ELSE IF score.WHITE > score.BLACK THEN "WHITE"
    ELSE "DRAW"

\* The end of _ended_popup and of _turn_label: the result by the score for Go,
\* by the winner field otherwise.
EndText(c, g, score) ==
    IF ScoredAsGo(c, g) /\ score # <<>> THEN ByScore(score[1])
    ELSE IF g.winner = None THEN "DRAW"
    ELSE PlayerName(g.winner)

\* UIController._ended_popup(): None while the game goes on.
ended_popup(c, g) == IF ~g.ended THEN None ELSE EndText(c, g, GoScore(g))

\* UIController._turn_label()
turn_label(c, g) ==
    IF c.replay_mode THEN "Replay"
    ELSE IF g.ended THEN EndText(c, g, GoScore(g))
    ELSE "Turn"

\* The winner _update_account_stats_once() passes to accounts.update_stats.
StatsWinner(c, g, score) ==
    IF g.winner # None THEN PlayerName(g.winner)
    ELSE IF ScoredAsGo(c, g) /\ score # <<>> /\ ByScore(score[1]) # "DRAW"
    THEN ByScore(score[1])
    ELSE None

update_account_stats_once(c, g) == StatsWinner(c, g, GoScore(g))

(***************************************************************************)
(* The controller's click, pass and resign on Go positions.                *)
(***************************************************************************)
\* Komi of the fresh games, in tenths of a point.
Komis == {0, DefaultKomi}

InitResign ==
    /\ game \in LoadedGoGames(Size, GoScoreRegion)
                 \cup {create_game(GO, Size, k) : k \in Komis}
    /\ result = "new"
    /\ played = <<>>
    /\ replayer = NewReplayer
    /\ ctl = [NewController(game) EXCEPT !.komi = game.komi]

NextResign ==
    \/ \E pos \in GoScoreRegion : PlayClick(pos)
    \/ PlayPass
    \/ PlayResign

SpecResign == InitResign /\ [][NextResign]_vars

\* C38: in Go, after a resignation the end popup and the turn label name the
\* opponent of the resigning colour as the winner, as the winner field of the
\* game and the winner handed to the statistics do, whatever the board, the
\* captures and the komi.
C38_ResignationAnnounced ==
    (game.type = GO /\ result = OK /\ played # <<>> /\ LastOf(played).resign)
        => LET won == PlayerName(Opponent(LastOf(played).player))
           IN  /\ game.ended
               /\ game.winner = Opponent(LastOf(played).player)
               /\ update_account_stats_once(ctl, game) = won
               /\ ended_popup(ctl, game) = won
               /\ turn_label(ctl, game) = won

(***************************************************************************)
(* controller.py: Reversi with sides played by an agent.  ai_black and     *)
(* ai_white are None or "AI"; an agent picks any of the legal moves.       *)
(***************************************************************************)
\* UIController._agent_for_current()
agent_for_current(c, g) ==
    IF c.replay_mode THEN None
    ELSE IF normalize_game_type(c.game_type) # REVERSI THEN None
    ELSE IF g.current = PC_BLACK THEN c.ai_black ELSE c.ai_white

\* _maybe_ai_play_once() from agent.select_move on: the agent's move is
\* stepped, then the full-board check and the skip.
AgentMoves(g) ==
    IF legal_moves(g) = {} THEN {[game |-> g, ret |-> FALSE]}
    ELSE {[game |-> ClickAfter(reversi_check_full_end(
                        step(g, Move(g.current, pos, FALSE, FALSE)).game)),
           ret |-> TRUE] : pos \in legal_moves(g)}

\* _maybe_ai_play_once() after the skip check s: the outcomes it can have.
OnceAfterSkip(c, s) ==
    IF s.ret \/ s.game.ended THEN {[game |-> s.game, ret |-> TRUE]}
    ELSE IF agent_for_current(c, s.game) = None THEN {[game |-> s.game, ret |-> FALSE]}
    ELSE AgentMoves(s.game)

\* _maybe_ai_play_once(): the games it can leave and the boolean it returns.
ai_play_once(c, g) ==
    IF g.ended \/ c.replay_mode THEN {[game |-> g, ret |-> FALSE]}
    ELSE IF normalize_game_type(c.game_type) = REVERSI
    THEN OnceAfterSkip(c, reversi_auto_skip_or_end(g))
    ELSE {[game |-> g, ret |-> FALSE]}

\* _maybe_ai_play_loop(): the games the loop can end on, from the outcomes rs
\* of the rounds so far.
RECURSIVE AiLoop(_, _, _)
AiLoop(c, rs, safety) ==
    LET on == {r \in rs : r.ret}
    IN  {r.game : r \in IF safety = 0 THEN rs ELSE rs \ on}
        \cup (IF safety = 0 \/ on = {} THEN {}
              ELSE AiLoop(c, UNION {ai_play_once(c, r.game) : r \in on}, safety - 1))

ai_play_loop(c, g) == AiLoop(c, {[game |-> g, ret |-> TRUE]}, 512)

\* click_canvas() with agents, after the skip check it starts with.
AgentClickStep(c, pre, r) ==
    IF pre.ended THEN {[game |-> pre, error |-> Ended]}
    ELSE IF agent_for_current(c, pre) # None
    THEN {[game |-> x, error |-> OK] : x \in ai_play_loop(c, pre)}
    ELSE IF r.error # OK THEN {r}
    ELSE {[game |-> x, error |-> OK] :
             x \in ai_play_loop(c, ClickAfter(reversi_check_full_end(r.game)))}

\* click_canvas() with agents, after the skip check it starts with.
AgentClickFrom(c, pre, pos) ==
    AgentClickStep(c, pre, step(pre, Move(pre.current, pos, FALSE, FALSE)))

\* click_canvas(evt) for a click on cell pos: the outcomes it can have.
agent_click_canvas(c, g, pos) == AgentClickFrom(c, reversi_auto_skip_or_end(g).game, pos)

\* The sides an agent plays.
AgentSides == {<<None, None>>, <<None, "AI">>, <<"AI", None>>}

InitAgent ==
    /\ game \in {create_game(REVERSI, Size, DefaultKomi)}
                 \cup {Restarted(lk[1], lk[2]) : lk \in RestartPoints}
    /\ \E ai \in AgentSides :
          ctl = [NewController(game) EXCEPT !.ai_black = ai[1], !.ai_white = ai[2]]
    /\ result = "new"
    /\ played = <<>>
    /\ replayer = NewReplayer

\* The placements among the events logged from number n on.
RECURSIVE PlacedSince(_, _)
PlacedSince(events, n) ==
    IF n > Len(events) THEN <<>>
    ELSE IF events[n].type = "move"
    THEN <<Move(IF events[n].player = "BLACK" THEN PC_BLACK ELSE PC_WHITE,
                <<events[n].row[1], events[n].col[1]>>, FALSE, FALSE)>>
         \o PlacedSince(events, n + 1)
    ELSE PlacedSince(events, n + 1)

\* The outcome r of a handler becomes the state; the placements it made, the
\* agents' among them, are added to those that can be undone.
AgentHandled(r) ==
    /\ game' = r.game
    /\ result' = r.error
    /\ played' = played \o PlacedSince(r.game.recorder.events, Len(game.recorder.events) + 1)
    /\ UNCHANGED <<replayer, ctl>>

\* A click on pos: one of the outcomes of the handler becomes the state.
AgentClick(pos) ==
    /\ Len(game.recorder.events) < PlaySteps
    /\ \E r \in agent_click_canvas(ctl, game, pos) : AgentHandled(r)

\* undo() of a step made since the start
AgentUndo ==
    /\ played # <<>>
    /\ Interacted(LastOf(played), controller_undo(game, ctl))

\* resign()
AgentResign ==
    /\ Len(game.recorder.events) < PlaySteps
    /\ Interacted(Move(game.current, NoPos, FALSE, TRUE), Gated(ctl, game, resign(game)))

\* The cells clicked: those the side to move can place on and a corner.
AgentCells(moves) == moves \cup {<<0, 0>>}

NextAgent ==
    \/ \E pos \in AgentCells(legal_moves(game)) : AgentClick(pos)
    \/ AgentUndo
    \/ AgentResign

SpecAgent == InitAgent /\ [][NextAgent]_vars

\* C39: in Reversi driven through the controller, after every handler (a click
\* with its move, the agents' moves that follow it, undo) the game is ended or
\* the side to move has a legal placement.
C39_MoverCanPlace ==
    game.type = REVERSI => game.ended \/ CanMove(game.board, game.current)

\* A click was followed by a forced skip and the game goes on: the side that
\* moved is to move again and can place.
C39_Witness ==
    /\ game.type = REVERSI
    /\ result = OK
    /\ ~game.ended
    /\ game.recorder.events # <<>>
    /\ LastOf(game.recorder.events).type = "skip"
    /\ ~CanMove(game.board, Opponent(game.current))
    /\ CanMove(game.board, game.current)

====
